---------------------------- MODULE Spec2Model ----------------------------
(***************************************************************************)
(* Profit reconciliation of src/app.py: the product metrics, the matcher   *)
(* that resolves a receipt (amazon_receitas row) to a product (produtos    *)
(* row), and the realized-profit cards of the "Produtos" tab.              *)
(*                                                                         *)
(* Text values are sequences of one-character strings; a NULL / None text  *)
(* is the value None.  Money is exact: a float of the code is the integer  *)
(* number of 1/Den units it stands for (see Den), so IEEE rounding of the  *)
(* code's floats is outside this model.                                    *)
(***************************************************************************)
EXTENDS Integers, Sequences, FiniteSets

VARIABLES
    produtos,         \* table produtos: a set of rows, unique id
    amazon_receitas,  \* table amazon_receitas: a set of rows, unique id
    gastos,           \* table gastos: a set of rows, unique id
    investimentos,    \* table investimentos: a set of rows, unique id
    receitas,         \* table receitas: a set of rows, unique id
    g_mes,            \* the selected month, <<year, month>> ("YYYY-MM")
    tab1,             \* what the last run of the "Principal" tab computed
    tab3,             \* what the last run of the "Fluxo de Caixa" tab computed
    tab4,             \* what the last run of the "Gráficos" tab computed
    tab6,             \* what the last run of the "Produtos" tab computed
    call,             \* what a call of _sum_profit on two given frames did
    metric,           \* what the four metrics of a given product row are
    sqlite_sequence,  \* AUTOINCREMENT: the largest id given in each table
    query_params,     \* st.query_params of the running script
    phase,            \* where the run of the script is: boot, deletions, tabs
    writer,           \* the receipt write path of each session
    op                \* the statement that ran last: its name and arguments

\* The tables, and what the tabs before the "Produtos" tab computed
ledgers == <<gastos, investimentos, receitas>>
cash    == <<tab1, tab3, tab4>>

\* The persistence layer and the run of the script on it
store   == <<sqlite_sequence, query_params, phase, writer, op>>

vars == <<produtos, amazon_receitas, ledgers, g_mes, cash, tab6, call, metric,
          store>>

----------------------------------------------------------------------------
(* Bounds of the model *)

MaxProducts == 2      \* rows of produtos
MaxReceipts == 2      \* rows of amazon_receitas
MaxLot      == 10     \* produtos.quantidade (lot size of the rateio)
MaxQty      == 2      \* amazon_receitas.quantidade
MaxLen      == 2      \* length of the texts of the normalisation inputs
MaxRows     == 2      \* rows of gastos, of investimentos and of receitas
MaxStock    == 3      \* produtos.estoque of a new product

----------------------------------------------------------------------------
(* Text *)

None == <<"None">>    \* NULL of a TEXT column / Python None / missing column

Whites == {" "}
Puncts == {"-", ".", "_"}

\* str.lower() on one character
LowerChar(c) ==
    CASE c = "A" -> "a"
      [] c = "B" -> "b"
      [] OTHER   -> c

\* str.lower()
lower(s) == [i \in 1..Len(s) |-> LowerChar(s[i])]

\* str.strip(): drops the leading and the trailing whitespace
RECURSIVE lstrip(_)
lstrip(s) == IF s # <<>> /\ Head(s) \in Whites THEN lstrip(Tail(s)) ELSE s

RECURSIVE rstrip(_)
rstrip(s) ==
    IF s # <<>> /\ s[Len(s)] \in Whites THEN rstrip(SubSeq(s, 1, Len(s) - 1)) ELSE s

strip(s) == rstrip(lstrip(s))

\* re.sub(r"[\s\-._]+", "", x): every run of whitespace, '-', '.', '_' removed
IsSepChar(c) == c \in Whites \cup Puncts

re_sub_seps(s) == SelectSeq(s, LAMBDA c : ~IsSepChar(c))

\* _norm without the str.lower() step
_norm_NoLower(x) == IF x = None THEN <<>> ELSE re_sub_seps(strip(x))

\* _norm(x)
_norm(x) == IF x = None THEN <<>> ELSE re_sub_seps(lower(strip(x)))

\* `s and str(s).strip()` of _maps_from_products: the key is kept
KeyKept(s) == s # None /\ s # <<>> /\ strip(s) # <<>>

----------------------------------------------------------------------------
(* Dates: <<year, month, day>> for 'YYYY-MM-DD' *)

\* str(date).startswith(month)
StartsWith(d, month) == SubSeq(d, 1, 2) = month

\* date a sorts before date b
DateLess(a, b) ==
    \/ a[1] < b[1]
    \/ a[1] = b[1] /\ a[2] < b[2]
    \/ a[1] = b[1] /\ a[2] = b[2] /\ a[3] < b[3]

\* The row an "ORDER BY date(data) DESC, id DESC" returns first
FirstRow(rows, col) ==
    CHOOSE r \in rows : \A o \in rows \ {r} :
        \/ DateLess(o[col], r[col])
        \/ o[col] = r[col] /\ o.id < r.id

\* df_sql("SELECT ... ORDER BY date(col) DESC, id DESC"): the rows as a frame
RECURSIVE df_sql(_, _)
df_sql(rows, col) ==
    IF rows = {} THEN <<>>
    ELSE LET r == FirstRow(rows, col) IN <<r>> \o df_sql(rows \ {r}, col)

\* apply_month_filter(df, month, col)
apply_month_filter(df, month, col) ==
    IF df = <<>> THEN df
    ELSE SelectSeq(df, LAMBDA r : StartsWith(r[col], month))

----------------------------------------------------------------------------
(* Numbers *)

NA == 0 - 1           \* pd.NA of the Int64 column produto_id (NULL in the table)

RECURSIVE Gcd(_, _)
Gcd(a, b) == IF b = 0 THEN a ELSE Gcd(b, a % b)

RECURSIVE LcmUpTo(_)
LcmUpTo(n) == IF n <= 1 THEN 1 ELSE LET l == LcmUpTo(n - 1) IN (l * n) \div Gcd(l, n)

\* The unit of a float of the model is 1/Den: every rateio (x / quantidade) of
\* a lot of at most MaxLot units is then exact.
Den == LcmUpTo(MaxLot)

\* What a number column of a row may hold beside a number (which the model
\* takes not to be negative): Python None, the empty text, and a text that
\* float() does not parse, such as 'abc'
NoneNum  == 0 - 1
EmptyStr == 0 - 2
BadText  == 0 - 3

\* row.get(col, 0)
get0(row, col) == IF col \in DOMAIN row THEN row[col] ELSE 0

\* `v or 0`: None, '' and 0 are falsy
Or0(v) == IF v \in {NoneNum, EmptyStr} THEN 0 ELSE v

\* float(v or 0) of a column value, in 1/Den units
Float(v) == Or0(v) * Den

\* float(row.get(col, 0) or 0) raises ValueError for one of the columns cols
FloatRaises(row, cols) == \E col \in cols : get0(row, col) = BadText

\* price_to_buy_eff without the freight in the rateio
price_to_buy_eff_NoFreight(row) ==
    LET base    == Float(get0(row, "custo_base"))
        tax     == Float(get0(row, "tax"))
        qty     == Or0(get0(row, "quantidade"))
        rateio  == IF qty > 0 THEN tax \div qty ELSE 0
    IN  base + rateio

\* price_to_buy_eff that divides by a lot of one unit when the lot is empty
price_to_buy_eff_LotOfOne(row) ==
    LET base    == Float(get0(row, "custo_base"))
        tax     == Float(get0(row, "tax"))
        freight == Float(get0(row, "freight"))
        qty     == Or0(get0(row, "quantidade"))
        rateio  == IF qty > 0 THEN (tax + freight) \div qty ELSE tax + freight
    IN  base + rateio

\* price_to_buy_eff(row), for a row on which it does not raise
price_to_buy_eff(row) ==
    LET base    == Float(get0(row, "custo_base"))
        tax     == Float(get0(row, "tax"))
        freight == Float(get0(row, "freight"))
        qty     == Or0(get0(row, "quantidade"))
        rateio  == IF qty > 0 THEN (tax + freight) \div qty ELSE 0
    IN  base + rateio

\* gross_profit_unit(row), for a row on which it does not raise
gross_profit_unit(row) ==
    LET sold_for == Float(get0(row, "sold_for"))
        amz      == Float(get0(row, "amazon_fees"))
        prep     == Float(get0(row, "prep"))
        p2b      == price_to_buy_eff(row)
    IN  sold_for - amz - prep - p2b

\* A quotient n / d of two floats is the pair <<n, d>>, d # 0; 0.0 is Zero
Zero == <<0, 1>>

\* gross_roi without the `if p2b > 0` guard
gross_roi_NoGuard(row) ==
    LET p2b == price_to_buy_eff(row)
    IN  <<gross_profit_unit(row), p2b>>

\* gross_roi(row), for a row on which it does not raise
gross_roi(row) ==
    LET p2b == price_to_buy_eff(row)
    IN  IF p2b > 0 THEN <<gross_profit_unit(row), p2b>> ELSE Zero

\* margin_pct(row), for a row on which it does not raise
margin_pct(row) ==
    LET sold_for == Float(get0(row, "sold_for"))
        gp       == gross_profit_unit(row)
    IN  IF sold_for > 0 THEN <<gp, sold_for>> ELSE Zero

\* The columns the metrics read
P2bCols == {"custo_base", "tax", "freight", "quantidade"}
GpCols  == P2bCols \cup {"sold_for", "amazon_fees", "prep"}

\* What the four metrics of a product row are: dfv.apply(price_to_buy_eff),
\* dfv.apply(gross_profit_unit), dfv.apply(gross_roi), dfv.apply(margin_pct).
\* The first float() that raises ends the computation with ValueError.
NoMetrics == [ran |-> FALSE, row |-> <<>>, raised |-> FALSE, p2b |-> 0,
              gross_profit |-> 0, roi |-> Zero, margin |-> Zero]

Metrics(row) ==
    IF FloatRaises(row, GpCols)
    THEN [NoMetrics EXCEPT !.ran = TRUE, !.row = row, !.raised = TRUE]
    ELSE [ran |-> TRUE, row |-> row, raised |-> FALSE,
          p2b |-> price_to_buy_eff(row),
          gross_profit |-> gross_profit_unit(row),
          roi |-> gross_roi(row), margin |-> margin_pct(row)]

----------------------------------------------------------------------------
(* The matcher *)

IdCols == {"sku", "upc", "asin", "nome"}

\* DataFrame.set_index(col).to_dict("index") raises ValueError("DataFrame index
\* must be unique for orient='index'.") when two rows carry the same value of
\* col (two NULLs and two empty texts included).
IndexIsUnique(df, col) ==
    \A i, j \in 1..Len(df) : i # j => df[i][col] # df[j][col]

Last(S) == CHOOSE i \in S : \A j \in S : j <= i

\* { _norm(s): r for s, r in df.set_index(col).to_dict("index").items()
\*   if s and str(s).strip() }: a later row replaces an earlier one of the
\* same normalised key.  (The row stands for the dict of its columns.)
NormMap(df, col) ==
    LET kept == {i \in 1..Len(df) : KeyKept(df[i][col])}
        keys == {_norm(df[i][col]) : i \in kept}
    IN  [k \in keys |-> df[Last({i \in kept : _norm(df[i][col]) = k})]]

\* _maps_from_products(df_products)
_maps_from_products(df) ==
    IF \E col \in IdCols : ~IndexIsUnique(df, col)
    THEN [raised |-> TRUE]
    ELSE [raised  |-> FALSE,
          by_id   |-> [k \in {df[i].id : i \in 1..Len(df)} |->
                          df[CHOOSE i \in 1..Len(df) : df[i].id = k]],
          by_sku  |-> NormMap(df, "sku"),
          by_upc  |-> NormMap(df, "upc"),
          by_asin |-> NormMap(df, "asin"),
          by_name |-> NormMap(df, "nome")]

\* `row.get(col) if col in row else None`
get(row, col) == IF col \in DOMAIN row THEN row[col] ELSE None

\* A matcher result is <<>> for None and <<row>> for a product row.

\* _match_prod_for_receipt that tries the sku before the produto_id
_match_SkuFirst(row, m) ==
    LET pid  == row.produto_id
        sku  == _norm(row.sku)
        upc  == _norm(get(row, "upc"))
        asin == _norm(get(row, "asin"))
        name == _norm(get(row, "produto"))
    IN  IF sku # <<>> /\ sku \in DOMAIN m.by_sku THEN <<m.by_sku[sku]>>
        ELSE IF pid # NA /\ pid \in DOMAIN m.by_id THEN <<m.by_id[pid]>>
        ELSE IF upc # <<>> /\ upc \in DOMAIN m.by_upc THEN <<m.by_upc[upc]>>
        ELSE IF asin # <<>> /\ asin \in DOMAIN m.by_asin THEN <<m.by_asin[asin]>>
        ELSE IF name # <<>> /\ name \in DOMAIN m.by_name THEN <<m.by_name[name]>>
        ELSE <<>>

\* _match_prod_for_receipt that returns None when a produto_id resolves nothing
_match_StaleStops(row, m) ==
    LET pid  == row.produto_id
        sku  == _norm(row.sku)
        upc  == _norm(get(row, "upc"))
        asin == _norm(get(row, "asin"))
        name == _norm(get(row, "produto"))
    IN  IF pid # NA /\ pid \in DOMAIN m.by_id THEN <<m.by_id[pid]>>
        ELSE IF pid # NA THEN <<>>
        ELSE IF sku # <<>> /\ sku \in DOMAIN m.by_sku THEN <<m.by_sku[sku]>>
        ELSE IF upc # <<>> /\ upc \in DOMAIN m.by_upc THEN <<m.by_upc[upc]>>
        ELSE IF asin # <<>> /\ asin \in DOMAIN m.by_asin THEN <<m.by_asin[asin]>>
        ELSE IF name # <<>> /\ name \in DOMAIN m.by_name THEN <<m.by_name[name]>>
        ELSE <<>>

\* _match_prod_for_receipt that tries the asin before the upc
_match_AsinFirst(row, m) ==
    LET pid  == row.produto_id
        sku  == _norm(row.sku)
        upc  == _norm(get(row, "upc"))
        asin == _norm(get(row, "asin"))
        name == _norm(get(row, "produto"))
    IN  IF pid # NA /\ pid \in DOMAIN m.by_id THEN <<m.by_id[pid]>>
        ELSE IF sku # <<>> /\ sku \in DOMAIN m.by_sku THEN <<m.by_sku[sku]>>
        ELSE IF asin # <<>> /\ asin \in DOMAIN m.by_asin THEN <<m.by_asin[asin]>>
        ELSE IF upc # <<>> /\ upc \in DOMAIN m.by_upc THEN <<m.by_upc[upc]>>
        ELSE IF name # <<>> /\ name \in DOMAIN m.by_name THEN <<m.by_name[name]>>
        ELSE <<>>

\* _match_prod_for_receipt without the `key and` guards of the lookups
_match_NoKeyGuard(row, m) ==
    LET pid  == row.produto_id
        sku  == _norm(row.sku)
        upc  == _norm(get(row, "upc"))
        asin == _norm(get(row, "asin"))
        name == _norm(get(row, "produto"))
    IN  IF pid # NA /\ pid \in DOMAIN m.by_id THEN <<m.by_id[pid]>>
        ELSE IF sku \in DOMAIN m.by_sku THEN <<m.by_sku[sku]>>
        ELSE IF upc \in DOMAIN m.by_upc THEN <<m.by_upc[upc]>>
        ELSE IF asin \in DOMAIN m.by_asin THEN <<m.by_asin[asin]>>
        ELSE IF name \in DOMAIN m.by_name THEN <<m.by_name[name]>>
        ELSE <<>>

\* _match_prod_for_receipt(row, by_id, by_sku, by_upc, by_asin, by_name), m the
\* five maps
_match_prod_for_receipt(row, m) ==
    LET pid  == row.produto_id
        sku  == _norm(row.sku)
        upc  == _norm(get(row, "upc"))
        asin == _norm(get(row, "asin"))
        name == _norm(get(row, "produto"))
    IN  IF pid # NA /\ pid \in DOMAIN m.by_id THEN <<m.by_id[pid]>>
        ELSE IF sku # <<>> /\ sku \in DOMAIN m.by_sku THEN <<m.by_sku[sku]>>
        ELSE IF upc # <<>> /\ upc \in DOMAIN m.by_upc THEN <<m.by_upc[upc]>>
        ELSE IF asin # <<>> /\ asin \in DOMAIN m.by_asin THEN <<m.by_asin[asin]>>
        ELSE IF name # <<>> /\ name \in DOMAIN m.by_name THEN <<m.by_name[name]>>
        ELSE <<>>

----------------------------------------------------------------------------
(* The Profit Aggregator *)

\* What a call of _sum_profit did: its arguments, whether it raised ValueError,
\* whether it reached its loop, the product the loop resolved each receipt row
\* to (None for a row it resolved to none), and the total it returned.
NoCall == [ran |-> FALSE, receipts |-> <<>>, prods |-> <<>>, raised |-> FALSE,
           looped |-> FALSE, matched |-> <<>>, total |-> 0]

\* The loop of _sum_profit with `total = gp_u * q` for `total += gp_u * q`
RECURSIVE SumLoop_Overwrite(_, _, _)
SumLoop_Overwrite(rows, m, total) ==
    IF rows = <<>> THEN total
    ELSE LET row  == Head(rows)
             prod == _match_prod_for_receipt(row, m)
         IN  IF prod = <<>> THEN SumLoop_Overwrite(Tail(rows), m, total)
             ELSE SumLoop_Overwrite(Tail(rows), m,
                                    gross_profit_unit(prod[1]) * row.quantidade)

\* The loop of _sum_profit that books the amount received of an unmatched row
RECURSIVE SumLoop_BookUnmatched(_, _, _)
SumLoop_BookUnmatched(rows, m, total) ==
    IF rows = <<>> THEN total
    ELSE LET row  == Head(rows)
             prod == _match_prod_for_receipt(row, m)
         IN  IF prod = <<>>
             THEN SumLoop_BookUnmatched(Tail(rows), m, total + Float(row.valor_usd))
             ELSE SumLoop_BookUnmatched(Tail(rows), m,
                      total + gross_profit_unit(prod[1]) * row.quantidade)

\* The loop of _sum_profit that adds the amount received to the profit of a
\* matched row
RECURSIVE SumLoop_AmountReceived(_, _, _)
SumLoop_AmountReceived(rows, m, total) ==
    IF rows = <<>> THEN total
    ELSE LET row  == Head(rows)
             prod == _match_prod_for_receipt(row, m)
         IN  IF prod = <<>> THEN SumLoop_AmountReceived(Tail(rows), m, total)
             ELSE SumLoop_AmountReceived(Tail(rows), m,
                      total + Float(row.valor_usd)
                            + gross_profit_unit(prod[1]) * row.quantidade)

\* `for _, row in r.iterrows(): ...`: the loop of _sum_profit
RECURSIVE SumLoop(_, _, _)
SumLoop(rows, m, total) ==
    IF rows = <<>> THEN total
    ELSE LET row  == Head(rows)
             prod == _match_prod_for_receipt(row, m)
         IN  IF prod = <<>> THEN SumLoop(Tail(rows), m, total)
             ELSE LET gp_u == gross_profit_unit(prod[1])
                      q    == row.quantidade
                  IN  SumLoop(Tail(rows), m, total + gp_u * q)

\* _sum_profit without `if receipts_df.empty or prod_df.empty: return 0.0`
_sum_profit_NoEarlyReturn(receipts_df, prod_df) ==
    LET m == _maps_from_products(prod_df)
    IN  IF m.raised
        THEN [ran |-> TRUE, receipts |-> receipts_df, prods |-> prod_df,
              raised |-> TRUE, looped |-> FALSE,
              matched |-> [i \in 1..Len(receipts_df) |-> <<>>], total |-> 0]
        ELSE [ran |-> TRUE, receipts |-> receipts_df, prods |-> prod_df,
              raised |-> FALSE, looped |-> TRUE,
              matched |-> [i \in 1..Len(receipts_df) |->
                              _match_prod_for_receipt(receipts_df[i], m)],
              total |-> SumLoop(receipts_df, m, 0)]

\* _sum_profit(receipts_df, prod_df)
_sum_profit(receipts_df, prod_df) ==
    IF receipts_df = <<>> \/ prod_df = <<>>
    THEN [ran |-> TRUE, receipts |-> receipts_df, prods |-> prod_df,
          raised |-> FALSE, looped |-> FALSE,
          matched |-> [i \in 1..Len(receipts_df) |-> <<>>], total |-> 0]
    ELSE LET m == _maps_from_products(prod_df)
         IN  IF m.raised
             THEN [ran |-> TRUE, receipts |-> receipts_df, prods |-> prod_df,
                   raised |-> TRUE, looped |-> FALSE,
                   matched |-> [i \in 1..Len(receipts_df) |-> <<>>], total |-> 0]
             ELSE [ran |-> TRUE, receipts |-> receipts_df, prods |-> prod_df,
                   raised |-> FALSE, looped |-> TRUE,
                   matched |-> [i \in 1..Len(receipts_df) |->
                                   _match_prod_for_receipt(receipts_df[i], m)],
                   total |-> SumLoop(receipts_df, m, 0)]

----------------------------------------------------------------------------
(* The cash flow: tabs "Principal", "Fluxo de Caixa" and "Gráficos" *)

\* The three labels (tipo) of the monthly tables
GASTOS   == "Despesas (Gastos)"
INVEST   == "Despesas (Invest.)"
RECEITAS == "Receitas (Amazon)"
Tipos    == {GASTOS, INVEST, RECEITAS}

\* pd.to_datetime(data).dt.to_period("M"): the MonthKey of a date
Mes(d) == SubSeq(d, 1, 2)

\* df[col].sum()
RECURSIVE SumCol(_, _)
SumCol(df, col) == IF df = <<>> THEN 0 ELSE Head(df)[col] + SumCol(Tail(df), col)

\* SELECT date(data) as data, valor_brl, valor_usd FROM <table> (the id stands
\* for the index of the frame)
AsBrlUsd(rows) ==
    df_sql({[id |-> r.id, data |-> r.data, valor_brl |-> r.valor_brl,
             valor_usd |-> r.valor_usd] : r \in rows}, "data")

\* SELECT date(data) as data, valor_usd FROM amazon_receitas, and
\* df_r["valor_brl"] = 0.0
AsUsd(rows) ==
    df_sql({[id |-> r.id, data |-> r.data, valor_brl |-> 0,
             valor_usd |-> r.valor_usd] : r \in rows}, "data")

\* SELECT date(data) as data, 0 as valor_usd, 0 as valor_brl FROM amazon_receitas
AsZero(rows) ==
    df_sql({[id |-> r.id, data |-> r.data, valor_brl |-> 0, valor_usd |-> 0] :
               r \in rows}, "data")

\* monthly that keeps one row of a month instead of the sum of its rows
monthly_OneRow(df, label) ==
    {[mes |-> m, tipo |-> label,
      brl |-> SelectSeq(df, LAMBDA r : Mes(r.data) = m)[1].valor_brl,
      usd |-> SelectSeq(df, LAMBDA r : Mes(r.data) = m)[1].valor_usd] :
        m \in {Mes(df[i].data) : i \in 1..Len(df)}}

\* monthly that adds the BRL amounts to the USD sum
monthly_UsdPlusBrl(df, label) ==
    {[mes |-> m, tipo |-> label,
      brl |-> SumCol(SelectSeq(df, LAMBDA r : Mes(r.data) = m), "valor_brl"),
      usd |-> SumCol(SelectSeq(df, LAMBDA r : Mes(r.data) = m), "valor_usd")
              + SumCol(SelectSeq(df, LAMBDA r : Mes(r.data) = m), "valor_brl")] :
        m \in {Mes(df[i].data) : i \in 1..Len(df)}}

\* monthly(df, label): one row per month of df, with the sums of the month
\* (no row for an empty df)
monthly(df, label) ==
    {[mes |-> m, tipo |-> label,
      brl |-> SumCol(SelectSeq(df, LAMBDA r : Mes(r.data) = m), "valor_brl"),
      usd |-> SumCol(SelectSeq(df, LAMBDA r : Mes(r.data) = m), "valor_usd")] :
        m \in {Mes(df[i].data) : i \in 1..Len(df)}}

\* pivot_table that keeps the months that have a row of every tipo only
pivot_table_Inner(all, values) ==
    [m \in {r.mes : r \in {x \in all : \A tp \in Tipos :
                              \E y \in all : y.mes = x.mes /\ y.tipo = tp}} |->
        [tp \in Tipos |->
            (CHOOSE r \in all : r.mes = m /\ r.tipo = tp)[values]]]

\* all.pivot_table(index="mes", columns="tipo", values=values, aggfunc="sum",
\* fill_value=0) followed by `if c not in p: p[c] = 0.0` for the three tipos:
\* a row per month of `all`, 0 where the month has no row of the tipo
pivot_table(all, values) ==
    [m \in {r.mes : r \in all} |->
        [tp \in Tipos |->
            IF \E r \in all : r.mes = m /\ r.tipo = tp
            THEN (CHOOSE r \in all : r.mes = m /\ r.tipo = tp)[values]
            ELSE 0]]

\* Resultado without the investments
Resultado_GastosOnly(row) == row[RECEITAS] - row[GASTOS]

\* p["Resultado"] = p["Receitas (Amazon)"] - (p["Despesas (Gastos)"] +
\* p["Despesas (Invest.)"]), of one row of p
Resultado(row) == row[RECEITAS] - (row[GASTOS] + row[INVEST])

\* The pivot with its column Resultado
WithResultado(p) ==
    [m \in DOMAIN p |->
        [c \in Tipos \cup {"Resultado"} |->
            IF c = "Resultado" THEN Resultado(p[m]) ELSE p[m][c]]]

\* p[col].sum()
RECURSIVE SumPivot(_, _)
SumPivot(p, col) ==
    IF DOMAIN p = {} THEN 0
    ELSE LET m == CHOOSE x \in DOMAIN p : TRUE
         IN  p[m][col] + SumPivot([x \in (DOMAIN p) \ {m} |-> p[x]], col)

\* The "Principal" tab: the KPI cards of the selected month
NotRun1 == [ran |-> FALSE, rec_usd_mes |-> 0, rec_brl_mes |-> 0,
            desp_usd_mes |-> 0, desp_brl_mes |-> 0]

Tab1Kpis(g, i, ar, rc, mes) ==
    LET df_g_k  == apply_month_filter(AsBrlUsd(g), mes, "data")
        df_i_k  == apply_month_filter(AsBrlUsd(i), mes, "data")
        df_ar_k == apply_month_filter(AsUsd(ar), mes, "data")
        df_rc_k == apply_month_filter(AsBrlUsd(rc), mes, "data")
    IN  [ran |-> TRUE,
         rec_usd_mes  |-> SumCol(df_ar_k, "valor_usd") + SumCol(df_rc_k, "valor_usd"),
         rec_brl_mes  |-> SumCol(df_rc_k, "valor_brl"),
         desp_usd_mes |-> SumCol(df_g_k, "valor_usd") + SumCol(df_i_k, "valor_usd"),
         desp_brl_mes |-> SumCol(df_g_k, "valor_brl") + SumCol(df_i_k, "valor_brl")]

\* The "Fluxo de Caixa" tab: the monthly tables and, under them, the totals of
\* all the months; "Sem dados suficientes." when the selected month has no row
NotRun3 == [view |-> "none", p_brl |-> <<>>, p_usd |-> <<>>,
            p_brl_all |-> <<>>, p_usd_all |-> <<>>,
            tot_receita_usd |-> 0, tot_desp_usd |-> 0,
            tot_receita_brl |-> 0, tot_desp_brl |-> 0]

Tab3CashFlow(g, i, ar, mes) ==
    LET df_g == apply_month_filter(AsBrlUsd(g), mes, "data")
        df_i == apply_month_filter(AsBrlUsd(i), mes, "data")
        df_r == apply_month_filter(AsUsd(ar), mes, "data")
        all  == monthly(df_g, GASTOS) \cup monthly(df_i, INVEST)
                \cup monthly(df_r, RECEITAS)
    IN  IF all = {} THEN [NotRun3 EXCEPT !.view = "info"]
        ELSE LET p_usd_all ==
                     WithResultado(pivot_table(
                         monthly(AsBrlUsd(g), GASTOS) \cup monthly(AsBrlUsd(i), INVEST)
                         \cup monthly(AsUsd(ar), RECEITAS), "usd"))
                 p_brl_all ==
                     WithResultado(pivot_table(
                         monthly(AsBrlUsd(g), GASTOS) \cup monthly(AsBrlUsd(i), INVEST)
                         \cup monthly(AsZero(ar), RECEITAS), "brl"))
             IN  [view  |-> "table",
                  p_brl |-> WithResultado(pivot_table(all, "brl")),
                  p_usd |-> WithResultado(pivot_table(all, "usd")),
                  p_brl_all |-> p_brl_all,
                  p_usd_all |-> p_usd_all,
                  tot_receita_usd |-> SumPivot(p_usd_all, RECEITAS),
                  tot_desp_usd    |-> SumPivot(p_usd_all, GASTOS)
                                      + SumPivot(p_usd_all, INVEST),
                  tot_receita_brl |-> SumPivot(p_brl_all, RECEITAS),
                  tot_desp_brl    |-> SumPivot(p_brl_all, GASTOS)
                                      + SumPivot(p_brl_all, INVEST)]

\* The "Gráficos" tab: the USD pivot of the selected month
NotRun4 == [view |-> "none", pivot |-> <<>>]

Tab4Pivot(g, i, ar, mes) ==
    LET df_g == apply_month_filter(AsBrlUsd(g), mes, "data")
        df_i == apply_month_filter(AsBrlUsd(i), mes, "data")
        df_r == apply_month_filter(AsUsd(ar), mes, "data")
        agg  == monthly(df_r, RECEITAS) \cup monthly(df_g, GASTOS)
                \cup monthly(df_i, INVEST)
        p    == pivot_table(agg, "usd")
    IN  IF agg = {} THEN [NotRun4 EXCEPT !.view = "info"]
        ELSE [view  |-> "charts",
              pivot |-> [m \in DOMAIN p |->
                  [c \in Tipos \cup {"Despesas Totais", "Resultado"} |->
                      IF c = "Despesas Totais" THEN p[m][GASTOS] + p[m][INVEST]
                      ELSE IF c = "Resultado"
                           THEN p[m][RECEITAS] - (p[m][GASTOS] + p[m][INVEST])
                           ELSE p[m][c]]]]

\* The script runs the tabs in their order: "Principal" first
Tab1Render ==
    /\ ~tab1.ran
    /\ tab1' = Tab1Kpis(gastos, investimentos, amazon_receitas, receitas, g_mes)
    /\ UNCHANGED <<store, produtos, amazon_receitas, ledgers, g_mes, tab3, tab4, tab6,
                   call, metric>>

Tab3Render ==
    /\ tab1.ran
    /\ tab3.view = "none"
    /\ tab3' = Tab3CashFlow(gastos, investimentos, amazon_receitas, g_mes)
    /\ UNCHANGED <<store, produtos, amazon_receitas, ledgers, g_mes, tab1, tab4, tab6,
                   call, metric>>

Tab4Render ==
    /\ tab3.view # "none"
    /\ tab4.view = "none"
    /\ tab4' = Tab4Pivot(gastos, investimentos, amazon_receitas, g_mes)
    /\ UNCHANGED <<store, produtos, amazon_receitas, ledgers, g_mes, tab1, tab3, tab6,
                   call, metric>>

\* No ledger and no cash-flow tab
NoCashFlow ==
    /\ gastos = {}
    /\ investimentos = {}
    /\ receitas = {}
    /\ tab1 = NotRun1
    /\ tab3 = NotRun3
    /\ tab4 = NotRun4

----------------------------------------------------------------------------
(* The "Produtos" tab *)

\* lucro_periodo = _sum_profit(dr_mes, dfv); lucro_total = _sum_profit(dr_all,
\* dfp_all): an exception ends the run of the script.
Tab6Cards(dfp_all, dfv, dr_all, dr_mes) ==
    LET lucro_periodo == _sum_profit(dr_mes, dfv)
    IN  IF lucro_periodo.raised
        THEN [view |-> "exception", lucro_periodo |-> lucro_periodo,
              lucro_total |-> NoCall]
        ELSE LET lucro_total == _sum_profit(dr_all, dfp_all)
             IN  [view |-> IF lucro_total.raised THEN "exception" ELSE "cards",
                  lucro_periodo |-> lucro_periodo, lucro_total |-> lucro_total]

NotRun == [view |-> "none", lucro_periodo |-> NoCall, lucro_total |-> NoCall]

\* The run of the "Produtos" tab: the product listing of the selected month
\* and, when it is not empty, the two realized-profit cards.
Tab6Render ==
    /\ tab6.view = "none"
    /\ LET dfp_all == df_sql(produtos, "data_add")
           dfp     == apply_month_filter(dfp_all, g_mes, "data_add")
           dr_all  == df_sql(amazon_receitas, "data")
           dr_mes  == apply_month_filter(dr_all, g_mes, "data")
       IN  tab6' = IF dfp = <<>>
                   THEN [NotRun EXCEPT !.view = "info"]
                   ELSE Tab6Cards(dfp_all, dfp, dr_all, dr_mes)
    /\ UNCHANGED <<store, produtos, amazon_receitas, ledgers, g_mes, cash, call, metric>>

\* The month and year select boxes: another month is selected and the script
\* runs again.
SelectMonth(month) ==
    /\ month # g_mes
    /\ g_mes' = month
    /\ tab1' = NotRun1
    /\ tab3' = NotRun3
    /\ tab4' = NotRun4
    /\ tab6' = NotRun
    /\ UNCHANGED <<store, produtos, amazon_receitas, ledgers, call, metric>>

\* _sum_profit(receipts_df, prod_df) on two frames of the given rows
SumProfit(receipts, prods) ==
    /\ call' = _sum_profit(df_sql(receipts, "data"), df_sql(prods, "data_add"))
    /\ UNCHANGED <<store, produtos, amazon_receitas, ledgers, g_mes, cash, tab6, metric>>

----------------------------------------------------------------------------
(* The persistence layer: add_row, delete_row, the stock update, the boot *)

\* The database as one value
Db ==
    [produtos |-> produtos, amazon_receitas |-> amazon_receitas,
     sqlite_sequence |-> sqlite_sequence]

\* The foreign key not enforced
ForeignKeyOk_Off(row, P) == TRUE

\* FOREIGN KEY(produto_id) REFERENCES produtos(id), with PRAGMA foreign_keys
\* = ON: a produto_id is NULL or the id of a row of produtos
ForeignKeyOk(row, P) ==
    row.produto_id = NA \/ \E p \in P : p.id = row.produto_id

\* The NOT NULL columns without a default: produtos.nome, amazon_receitas.data
NotNullOk(table, row) ==
    IF table = "produtos" THEN row.nome # None ELSE row.data # None

\* sqlite3.IntegrityError of INSERT INTO table
IntegrityError(table, row, db) ==
    \/ ~NotNullOk(table, row)
    \/ /\ table = "amazon_receitas"
       /\ "produto_id" \in DOMAIN row
       /\ ~ForeignKeyOk(row, db.produtos)

\* The row of the table an INSERT of `row` makes: the next id, and NULL for
\* a produto_id that is not given
Stored(table, row, id) ==
    IF table = "produtos"
    THEN [id |-> id, nome |-> row.nome, sku |-> row.sku, estoque |-> row.estoque]
    ELSE [id |-> id, data |-> row.data,
          produto_id |-> IF "produto_id" \in DOMAIN row THEN row.produto_id ELSE NA,
          quantidade |-> row.quantidade, valor_usd |-> row.valor_usd,
          quem |-> row.quem, sku |-> row.sku]

\* INSERT INTO table ... ; commit
Insert(table, row, db) ==
    LET id == db.sqlite_sequence[table] + 1
    IN  [db EXCEPT ![table] = @ \cup {Stored(table, row, id)},
                   !.sqlite_sequence[table] = id]

\* add_row that propagates every integrity error
add_row_NoFallback(table, row, db) ==
    IF IntegrityError(table, row, db)
    THEN [raised |-> TRUE, db |-> db]
    ELSE [raised |-> FALSE, db |-> Insert(table, row, db)]

\* add_row(table, row): whether it raised, and the database it leaves
add_row(table, row, db) ==
    IF ~IntegrityError(table, row, db)
    THEN [raised |-> FALSE, db |-> Insert(table, row, db)]
    ELSE IF table = "amazon_receitas" /\ "produto_id" \in DOMAIN row
    THEN LET safe == [row EXCEPT !.produto_id = NA]
         IN  IF IntegrityError(table, safe, db)
             THEN [raised |-> TRUE, db |-> db]
             ELSE [raised |-> FALSE, db |-> Insert(table, safe, db)]
    ELSE [raised |-> TRUE, db |-> db]

\* ON DELETE SET NULL of amazon_receitas.produto_id
OnDeleteSetNull(R, id_) ==
    {IF r.produto_id = id_ THEN [r EXCEPT !.produto_id = NA] ELSE r : r \in R}

\* delete_row that gives the quantity of a deleted receipt back to the stock
delete_row_Restock(table, id_, db) ==
    IF table = "produtos"
    THEN [db EXCEPT !.produtos = {p \in @ : p.id # id_},
                    !.amazon_receitas = OnDeleteSetNull(@, id_)]
    ELSE [db EXCEPT
            !.amazon_receitas = {r \in @ : r.id # id_},
            !.produtos =
                {[p EXCEPT !.estoque = @ +
                    (IF \E r \in db.amazon_receitas :
                           r.id = id_ /\ r.produto_id = p.id
                     THEN (CHOOSE r \in db.amazon_receitas : r.id = id_).quantidade
                     ELSE 0)] : p \in @}]

\* delete_row(table, id_): DELETE FROM table WHERE id = ?; commit
delete_row(table, id_, db) ==
    IF table = "produtos"
    THEN [db EXCEPT !.produtos = {p \in @ : p.id # id_},
                    !.amazon_receitas = OnDeleteSetNull(@, id_)]
    ELSE [db EXCEPT ![table] = {r \in @ : r.id # id_}]

\* The deletion parameters of the model, in the order of `mapping`, and a
\* parameter that is not one
mapping == <<(<<"del_ar", "amazon_receitas">>), (<<"del_prod", "produtos">>)>>

DeletionParams == {mapping[i][1] : i \in DOMAIN mapping}

\* for param, table in mapping.items(): delete_row(table, int(q.get(param))),
\* where int() of a text that is not an integer raises and is passed over
RECURSIVE DeleteLoop(_, _, _)
DeleteLoop(ms, q, db) ==
    IF ms = <<>> THEN db
    ELSE LET param == Head(ms)[1]
             table == Head(ms)[2]
         IN  DeleteLoop(Tail(ms), q,
                        IF param \in DOMAIN q /\ q[param] # BadText
                        THEN delete_row(table, q[param], db)
                        ELSE db)

\* handle_query_deletions that leaves the query parameters
handle_query_deletions_NoClear(q, db) ==
    [changed |-> DOMAIN q \cap DeletionParams # {},
     db |-> DeleteLoop(mapping, q, db), query_params |-> q]

\* handle_query_deletions(): whether it reruns the script, the database and
\* the query parameters it leaves
handle_query_deletions(q, db) ==
    LET changed == DOMAIN q \cap DeletionParams # {}
    IN  [changed |-> changed, db |-> DeleteLoop(mapping, q, db),
         query_params |-> IF changed THEN <<>> ELSE q]

\* SQL MAX(0, x)
Max0_NoClamp(x) == x

Max0(x) == IF x > 0 THEN x ELSE 0

\* The stock update without its WHERE
UpdateEstoque_AllRows(P, qtd, pid, seen) ==
    {[p EXCEPT !.estoque = Max0(@ - qtd)] : p \in P}

\* The stock update computed from the stock the session has read
UpdateEstoque_FromSnapshot(P, qtd, pid, seen) ==
    {IF p.id = pid THEN [p EXCEPT !.estoque = Max0(seen - qtd)] ELSE p : p \in P}

\* UPDATE produtos SET estoque = MAX(0, estoque - ?) WHERE id = ?; one
\* statement (`seen`, the stock the session has read, is not used)
UpdateEstoque(P, qtd, pid, seen) ==
    {IF p.id = pid THEN [p EXCEPT !.estoque = Max0(@ - qtd)] ELSE p : p \in P}

\* The backfill without its WHERE
NeedsBackfill_Always(r) == TRUE

\* WHERE (produto_id IS NULL OR produto_id = 0) AND COALESCE(sku,'') <> ''
NeedsBackfill(r) ==
    (r.produto_id = NA \/ r.produto_id = 0) /\ r.sku # None /\ r.sku # <<>>

\* SELECT p.id FROM produtos p WHERE COALESCE(p.sku,'') <> '' AND p.sku =
\* amazon_receitas.sku: the ids the scalar subquery may give
SkuMatches(r, P) ==
    {p.id : p \in {x \in P : x.sku # None /\ x.sku # <<>> /\ x.sku = r.sku}}

\* The tables the backfill UPDATE of init_db may leave: a receipt it applies
\* to gets the first row of the subquery (some match, the order of the rows
\* not being given), NULL when there is none
Backfills(R, P) ==
    {{IF NeedsBackfill(r) THEN [r EXCEPT !.produto_id = f[r.id]] ELSE r : r \in R} :
        f \in {g \in [{r.id : r \in R} -> {NA} \cup {p.id : p \in P}] :
                 \A r \in R :
                    g[r.id] \in IF NeedsBackfill(r) /\ SkuMatches(r, P) # {}
                                THEN SkuMatches(r, P) ELSE {NA}}}

\* sku_to_pid = { str(s or "").strip(): int(i) ... }.get(sku): the last
\* product (by id, the order of the SELECT) of that stripped sku
sku_to_pid_get(P, sku) ==
    LET ids == {p.id : p \in {x \in P :
                    strip(IF x.sku = None THEN <<>> ELSE x.sku) = sku}}
    IN  IF ids = {} THEN NA ELSE Last(ids)

\* `if pid:` of a produto_id
Truthy(pid) == pid # NA /\ pid # 0

\* What `op` records: the name of the statement, its arguments and result
Op(name, arg) == [name |-> name, arg |-> arg]

SetDb(db) ==
    /\ produtos' = db.produtos
    /\ amazon_receitas' = db.amazon_receitas
    /\ sqlite_sequence' = db.sqlite_sequence

others == <<ledgers, g_mes, cash, tab6, call, metric>>

\* The sessions whose receipt write path is modelled: session 1 submits
\* form_amz_receitas, session 2 runs sync_orders_to_db
Writers == {1, 2}

Idle == [pc |-> "idle", quem |-> <<>>, pid |-> NA, qty |-> 0, sku |-> <<>>,
         seen |-> 0]

Today == <<2024, 1, 10>>

\* init_db() at the start of a run of the script: the backfill of produto_id
InitDb ==
    /\ phase = "boot"
    /\ \E R \in Backfills(amazon_receitas, produtos) : amazon_receitas' = R
    /\ phase' = "deletions"
    /\ op' = Op("init_db", <<>>)
    /\ UNCHANGED <<produtos, sqlite_sequence, query_params, writer, others>>

\* handle_query_deletions() of the run: the deletions the request asks for,
\* then the rerun, or the tabs
HandleQueryDeletions ==
    /\ phase = "deletions"
    /\ LET h == handle_query_deletions(query_params, Db)
       IN  /\ SetDb(h.db)
           /\ query_params' = h.query_params
           /\ phase' = IF h.changed THEN "boot" ELSE "tabs"
           /\ op' = Op("handle_query_deletions",
                       [changed |-> h.changed, q |-> query_params])
    /\ UNCHANGED <<writer, others>>

\* A request of the page with query parameters q (a deletion link of a table
\* of the page, or any URL)
Request(q) ==
    /\ phase = "tabs"
    /\ query_params' = q
    /\ phase' = "boot"
    /\ op' = Op("request", <<>>)
    /\ UNCHANGED <<produtos, amazon_receitas, sqlite_sequence, writer, others>>

\* form_produto submitted: the product is added and the script reruns
FormProduto(sku, estoque) ==
    /\ phase = "tabs"
    /\ sqlite_sequence["produtos"] < MaxProducts
    /\ LET row == [nome |-> <<"n">>, sku |-> strip(sku), estoque |-> estoque]
           a   == add_row("produtos", row, Db)
       IN  /\ SetDb(a.db)
           /\ op' = Op("add_row", [table |-> "produtos", row |-> row,
                                   raised |-> a.raised])
    /\ phase' = "boot"
    /\ UNCHANGED <<query_params, writer, others>>

\* form_amz_receitas rendered and filled in by session w: a product of the
\* listing (none when there is no product) and a quantity of at least 1
FormAmzReceitas(w, qty_ar) ==
    /\ writer[w].pc = "idle"
    /\ sqlite_sequence["amazon_receitas"] < MaxReceipts
    /\ \/ /\ produtos = {}
          /\ writer' = [writer EXCEPT ![w] =
                [pc |-> "insert", quem |-> <<"B">>, pid |-> NA, qty |-> qty_ar,
                 sku |-> <<>>, seen |-> 0]]
       \/ \E p \in produtos :
             writer' = [writer EXCEPT ![w] =
                [pc |-> "insert", quem |-> <<"B">>, pid |-> p.id, qty |-> qty_ar,
                 sku |-> IF p.sku = None THEN <<>> ELSE p.sku,
                 seen |-> p.estoque]]
    /\ op' = Op("form_amz_receitas", [w |-> w])
    /\ UNCHANGED <<produtos, amazon_receitas, sqlite_sequence, query_params,
                   phase, others>>

\* sync_orders_to_db of session w at a row of an order: its SellerSKU and the
\* sum Qtd of the ordered quantities, the product looked up in sku_to_pid
SyncOrders(w, SellerSKU, Qtd) ==
    /\ writer[w].pc = "idle"
    /\ sqlite_sequence["amazon_receitas"] < MaxReceipts
    /\ LET sku == strip(SellerSKU)
           pid == sku_to_pid_get(produtos, sku)
       IN  writer' = [writer EXCEPT ![w] =
              [pc |-> "insert", quem |-> <<"SP-API">>, pid |-> pid, qty |-> Qtd,
               sku |-> sku,
               seen |-> IF pid = NA THEN 0
                        ELSE (CHOOSE p \in produtos : p.id = pid).estoque]]
    /\ op' = Op("sync_orders_to_db", [w |-> w])
    /\ UNCHANGED <<produtos, amazon_receitas, sqlite_sequence, query_params,
                   phase, others>>

\* The add_row("amazon_receitas", ...) of the write path of session w
AddReceipt(w) ==
    /\ writer[w].pc = "insert"
    /\ sqlite_sequence["amazon_receitas"] < MaxReceipts
    /\ LET s   == writer[w]
           row == [data |-> Today, produto_id |-> s.pid, quantidade |-> s.qty,
                   valor_usd |-> s.qty, quem |-> s.quem, sku |-> s.sku]
           a   == add_row("amazon_receitas", row, Db)
           upd == IF s.quem = <<"SP-API">> THEN Truthy(s.pid) /\ s.qty # 0
                  ELSE Truthy(s.pid)
       IN  /\ SetDb(a.db)
           /\ writer' = [writer EXCEPT ![w].pc = IF upd THEN "update" ELSE "done"]
           /\ op' = Op("add_row", [table |-> "amazon_receitas", row |-> row,
                                   raised |-> a.raised])
    /\ UNCHANGED <<query_params, phase, others>>

\* The UPDATE of the stock of the write path of session w
UpdateStock(w) ==
    /\ writer[w].pc = "update"
    /\ LET s == writer[w]
       IN  /\ produtos' = UpdateEstoque(produtos, s.qty, s.pid, s.seen)
           /\ op' = Op("update_estoque", [w |-> w, pid |-> s.pid, qty |-> s.qty])
    /\ writer' = [writer EXCEPT ![w].pc = "done"]
    /\ UNCHANGED <<amazon_receitas, sqlite_sequence, query_params, phase, others>>

\* add_row called on a given table and row
AddRowCall(table, row) ==
    /\ LET a == add_row(table, row, Db)
       IN  /\ SetDb(a.db)
           /\ op' = Op("add_row", [table |-> table, row |-> row,
                                   raised |-> a.raised])
    /\ UNCHANGED <<query_params, phase, writer, others>>

NoOp == [name |-> "none", arg |-> <<>>]

\* An empty database, no request, no session writing
NoStore ==
    /\ sqlite_sequence = [produtos |-> 0, amazon_receitas |-> 0]
    /\ query_params = <<>>
    /\ phase = "boot"
    /\ writer = [w \in Writers |-> Idle]
    /\ op = NoOp

----------------------------------------------------------------------------
(* The inputs *)

Jan10 == <<2024, 1, 10>>
Feb05 == <<2024, 2, 5>>
Dates == {Jan10, Feb05}
Months == {<<2024, 1>>, <<2024, 2>>}

\* n times the character c
Rep(c, n) == [j \in 1..n |-> c]

\* All the texts of at most n characters of the set chars
RECURSIVE Texts(_, _)
Texts(chars, n) ==
    IF n = 0 THEN {<<>>}
    ELSE LET shorter == Texts(chars, n - 1)
         IN  shorter \cup {<<c>> \o t : c \in chars, t \in {u \in shorter : Len(u) = n - 1}}

Alphabet == {"a", "A", "b"} \cup Whites \cup Puncts

\* A row of produtos (the columns the "Produtos" tab selects)
Product(id, data_add, ident, cost) ==
    [id |-> id, data_add |-> data_add, nome |-> ident.nome, sku |-> ident.sku,
     upc |-> ident.upc, asin |-> ident.asin, estoque |-> 0,
     custo_base |-> cost.custo_base, freight |-> cost.freight, tax |-> cost.tax,
     quantidade |-> cost.quantidade, prep |-> cost.prep,
     sold_for |-> cost.sold_for, amazon_fees |-> cost.amazon_fees]

\* A row of amazon_receitas as the "Produtos" tab selects it: the table has
\* no column upc or asin
Receipt(id, data, pid, qty, sku, produto) ==
    [id |-> id, data |-> data, produto_id |-> pid, quantidade |-> qty,
     valor_usd |-> qty, sku |-> sku, produto |-> produto]

\* A row of a receipts frame that has the columns upc and asin as well
ReceiptRow(id, data, pid, qty, ident) ==
    [id |-> id, data |-> data, produto_id |-> pid, quantidade |-> qty,
     valor_usd |-> qty, sku |-> ident.sku, produto |-> ident.produto,
     upc |-> ident.upc, asin |-> ident.asin]

\* Identifiers that no two products share: those of product id by default
OwnIdent(id) ==
    [sku |-> Rep("a", id), upc |-> Rep("b", id), asin |-> Rep("B", id),
     nome |-> <<"n">> \o Rep("a", id)]

\* Costs of product id: a lot of `lot` units, a sale price that grows with id
OwnCost(id, lot) ==
    [custo_base |-> 1, freight |-> 2, tax |-> 1, quantidade |-> lot, prep |-> 1,
     sold_for |-> 2 + 2 * id, amazon_fees |-> 1]

\* The identifiers of a product and of the receipt of the cascade inputs
CascadeProductIdents(id) ==
    [sku : {<<"-">>, <<"A", "-">>, <<"b">>}, upc : {<<>>, <<"b">>},
     asin : {None, <<"B">>}, nome : {OwnIdent(id).nome}]

CascadeReceiptIdents ==
    [sku : {None, <<"-">>, <<" ", "a">>}, upc : {None, <<"b">>},
     asin : {None, <<"b">>}, produto : {None, <<"N", "a">>}]

\* The matcher on the inputs of the cascade: up to MaxProducts products and
\* one receipt, whose identifiers vary
SumProfitCascade ==
    /\ ~call.ran
    /\ \E ids \in (SUBSET (1..MaxProducts)) \ {{}} :
         \E f \in [ids -> UNION {CascadeProductIdents(i) : i \in ids}] :
           \E pid \in {NA} \cup (0..MaxProducts), ident \in CascadeReceiptIdents :
              /\ \A i \in ids : f[i] \in CascadeProductIdents(i)
              /\ SumProfit({ReceiptRow(1, Jan10, pid, 1, ident)},
                           {Product(i, Jan10, f[i], OwnCost(i, MaxLot)) : i \in ids})

\* The matcher on the inputs of the normalisation: one product and one
\* receipt with no product link, whose skus are any two texts of at most
\* MaxLen characters
SumProfitNorm ==
    /\ ~call.ran
    /\ \E psku \in Texts(Alphabet, MaxLen), rsku \in Texts(Alphabet, MaxLen) \cup {None} :
          SumProfit({Receipt(1, Jan10, NA, 1, rsku, None)},
                    {Product(1, Jan10, [OwnIdent(1) EXCEPT !.sku = psku],
                             OwnCost(1, MaxLot))})

\* _sum_profit on an empty frame: no receipt, or no product, or neither; the
\* products, when there are two, may share a blank upc
SumProfitEmpty ==
    /\ ~call.ran
    /\ \E n \in 0..MaxProducts, r \in 0..1, blank \in BOOLEAN :
          /\ n = 0 \/ r = 0
          /\ SumProfit({ReceiptRow(i, Jan10, i, 1,
                                   [sku |-> None, upc |-> None, asin |-> None,
                                    produto |-> None]) : i \in 1..r},
                       {Product(i, Jan10,
                                IF blank THEN [OwnIdent(i) EXCEPT !.upc = <<>>]
                                         ELSE OwnIdent(i),
                                OwnCost(i, MaxLot)) : i \in 1..n})

\* The products of the tables: of either month, with a lot of MaxLot units,
\* or with no lot and no upc
Products(id) ==
    {Product(id, d, OwnIdent(id), OwnCost(id, MaxLot)) : d \in Dates}
    \cup {Product(id, d, [OwnIdent(id) EXCEPT !.upc = <<>>], OwnCost(id, 0)) : d \in Dates}

\* The receipts of the tables: of either month, with no product link or with
\* a product id, and no other identifier; receipt id sells
\* 1 + (id - 1) % MaxQty units
Receipts(id) ==
    {Receipt(id, d, pid, 1 + ((id - 1) % MaxQty), None, None) :
        d \in Dates, pid \in {NA} \cup (1..MaxProducts)}

\* The tables: up to MaxProducts products and up to MaxReceipts receipts
InitTables ==
    /\ \E n \in 0..MaxProducts :
         \E f \in [1..n -> UNION {Products(i) : i \in 1..n}] :
            /\ \A i \in 1..n : f[i] \in Products(i)
            /\ produtos = {f[i] : i \in 1..n}
    /\ \E n \in 0..MaxReceipts :
         \E f \in [1..n -> UNION {Receipts(i) : i \in 1..n}] :
            /\ \A i \in 1..n : f[i] \in Receipts(i)
            /\ amazon_receitas = {f[i] : i \in 1..n}

\* The "Produtos" tab on the tables, with the month selection
Init ==
    /\ g_mes = <<2024, 1>>
    /\ tab6 = NotRun
    /\ call = NoCall
    /\ metric = NoMetrics
    /\ NoCashFlow
    /\ NoStore
    /\ InitTables

Next ==
    \/ Tab6Render
    \/ \E month \in Months : SelectMonth(month)

Spec == Init /\ [][Next]_vars

\* No table, a function on given arguments
InitMatch ==
    /\ g_mes = <<2024, 1>>
    /\ tab6 = NotRun
    /\ call = NoCall
    /\ metric = NoMetrics
    /\ NoCashFlow
    /\ NoStore
    /\ produtos = {}
    /\ amazon_receitas = {}

NextMatch ==
    \/ SumProfitCascade
    \/ SumProfitNorm
    \/ SumProfitEmpty

SpecMatch == InitMatch /\ [][NextMatch]_vars

\* The rows of the ledgers: of January or of February, the amounts of a row
\* given by its table and its id
Jan15 == <<2024, 1, 15>>
Jan20 == <<2024, 1, 20>>

LedgerDates(id) == {IF id % 2 = 1 THEN Jan15 ELSE Jan20, Feb05}

Gastos(id) ==
    {[id |-> id, data |-> d, valor_brl |-> 3 * id,
      valor_usd |-> IF id = 1 THEN 100 ELSE 50] : d \in LedgerDates(id)}

Investimentos(id) ==
    {[id |-> id, data |-> d, valor_brl |-> 11 * id, valor_usd |-> 7 * id] :
        d \in LedgerDates(id)}

Receitas(id) ==
    {[id |-> id, data |-> d, valor_brl |-> 17 * id, valor_usd |-> 13 * id] :
        d \in LedgerDates(id)}

AmazonReceitas(id) ==
    {[Receipt(id, d, NA, 1, None, None) EXCEPT !.valor_usd = 500 * id] :
        d \in Dates}

\* The tables of n rows, row i taken from rows[i]
TablesOf(rows, n) ==
    {{f[i] : i \in 1..n} :
        f \in {g \in [1..n -> UNION {rows[i] : i \in 1..n}] :
                  \A i \in 1..n : g[i] \in rows[i]}}

\* The cash-flow tabs on ledgers of up to MaxRows rows and up to MaxReceipts
\* receipts, with the month selection
InitCash ==
    /\ g_mes = <<2024, 1>>
    /\ tab1 = NotRun1
    /\ tab3 = NotRun3
    /\ tab4 = NotRun4
    /\ tab6 = NotRun
    /\ call = NoCall
    /\ metric = NoMetrics
    /\ NoStore
    /\ produtos = {}
    /\ \E n \in 0..MaxRows : gastos \in TablesOf([i \in 1..MaxRows |-> Gastos(i)], n)
    /\ \E n \in 0..MaxRows : investimentos \in
          TablesOf([i \in 1..MaxRows |-> Investimentos(i)], n)
    /\ \E n \in 0..MaxRows : receitas \in TablesOf([i \in 1..MaxRows |-> Receitas(i)], n)
    /\ \E n \in 0..MaxReceipts : amazon_receitas \in
          TablesOf([i \in 1..MaxReceipts |-> AmazonReceitas(i)], n)

NextCash ==
    \/ Tab1Render
    \/ Tab3Render
    \/ Tab4Render
    \/ \E month \in Months : SelectMonth(month)

SpecCash == InitCash /\ [][NextCash]_vars

\* The product rows of the metrics: every lot from 0 to MaxLot units
MetricRows ==
    [custo_base : {0, 1, 10}, tax : {0, 5}, freight : {0, 5},
     quantidade : 0..MaxLot, prep : {0, 2}, sold_for : {0, 30},
     amazon_fees : {0, 3}]

\* Row r without its column col
DropColumn(r, col) == [c \in (DOMAIN r) \ {col} |-> r[c]]

\* The rows of which one number column is None, '' or 'abc', or is not there
MalformedRows ==
    LET core == {r \in MetricRows : r.quantidade \in {0, MaxLot}}
    IN  {[r EXCEPT ![col] = v] :
            r \in core, col \in GpCols, v \in {NoneNum, EmptyStr, BadText}}
        \cup {DropColumn(r, col) : r \in core, col \in GpCols}

\* The four metrics of a product row of numbers
ProductMetrics ==
    /\ ~metric.ran
    /\ \E row \in MetricRows : metric' = Metrics(row)
    /\ UNCHANGED <<store, produtos, amazon_receitas, ledgers, g_mes, cash, tab6, call>>

\* The four metrics of a product row with a malformed number
MalformedMetrics ==
    /\ ~metric.ran
    /\ \E row \in MalformedRows : metric' = Metrics(row)
    /\ UNCHANGED <<store, produtos, amazon_receitas, ledgers, g_mes, cash, tab6, call>>

NextMetrics ==
    \/ ProductMetrics
    \/ MalformedMetrics

SpecMetrics == InitMatch /\ [][NextMetrics]_vars

\* The skus typed in form_produto and the SellerSKUs of the order items, the
\* stock of a new product, the requests and the rows of the calls of add_row
SellerSkus == {<<"A">>, <<>>}

\* The products typed in form_produto: their sku and stock
NewProducts == {<<(<<"A">>), MaxStock>>, <<(<<"a", " ">>), 1>>}

QueryNames == DeletionParams \cup {"page"}

AllRequests ==
    {q \in UNION {[S -> {1, BadText}] : S \in SUBSET QueryNames} :
        "page" \in DOMAIN q => q["page"] = 1}

Requests == {q \in AllRequests : Cardinality(DOMAIN q) = 1 /\ q \in [DOMAIN q -> {1}]}

\* The rows of the calls of add_row: a product with or without its nome, a
\* receipt with or without its data, with a produto_id (NULL, 0, an id) or
\* without the field
CallRows(table) ==
    IF table = "produtos"
    THEN {[nome |-> n, sku |-> <<"A">>, estoque |-> 0] : n \in {<<"n">>, None}}
    ELSE LET core == {[data |-> d, quantidade |-> 1, valor_usd |-> 1,
                       quem |-> <<"D">>, sku |-> <<"A">>] : d \in {Today, None}}
         IN  {[c \in DOMAIN r \cup {"produto_id"} |->
                    IF c = "produto_id" THEN pid ELSE r[c]] :
                 r \in core, pid \in {NA} \cup (0..MaxProducts)}
             \cup core

\* The script and two sessions on an empty database
InitStore ==
    /\ g_mes = <<2024, 1>>
    /\ tab6 = NotRun
    /\ call = NoCall
    /\ metric = NoMetrics
    /\ NoCashFlow
    /\ NoStore
    /\ produtos = {}
    /\ amazon_receitas = {}

NextStore ==
    \/ InitDb
    \/ HandleQueryDeletions
    \/ \E q \in Requests : Request(q)
    \/ \E new \in NewProducts : FormProduto(new[1], new[2])
    \/ \E qty_ar \in {1, MaxQty} : FormAmzReceitas(1, qty_ar)
    \/ \E SellerSKU \in SellerSkus, Qtd \in {0, MaxQty} :
          SyncOrders(2, SellerSKU, Qtd)
    \/ \E w \in Writers : AddReceipt(w)
    \/ \E w \in Writers : UpdateStock(w)

SpecStore == InitStore /\ [][NextStore]_vars

\* A database of some of the products 1..MaxProducts and of receipts of
\* product 1 and of no product
StoreTables ==
    /\ sqlite_sequence = [produtos |-> MaxProducts, amazon_receitas |-> MaxReceipts]
    /\ \E ids \in SUBSET (1..MaxProducts) :
          produtos = {Stored("produtos", [nome |-> <<"n">>, sku |-> <<"A">>,
                                          estoque |-> MaxStock], id) : id \in ids}
    /\ \E ids \in SUBSET (1..MaxReceipts) :
          amazon_receitas =
              {Stored("amazon_receitas",
                      [data |-> Today, quantidade |-> 1, valor_usd |-> 1,
                       quem |-> <<"B">>, sku |-> <<"A">>,
                       produto_id |-> IF id = 1 /\ (\E p \in produtos : p.id = 1)
                                      THEN 1 ELSE NA], id) : id \in ids}

InitAddRow ==
    /\ g_mes = <<2024, 1>>
    /\ tab6 = NotRun
    /\ call = NoCall
    /\ metric = NoMetrics
    /\ NoCashFlow
    /\ query_params = <<>>
    /\ phase = "tabs"
    /\ writer = [w \in Writers |-> Idle]
    /\ op = NoOp
    /\ StoreTables

\* Calls of add_row, MaxRows of them on each table
NextAddRow ==
    \E table \in {"produtos", "amazon_receitas"} :
        \E row \in CallRows(table) :
            /\ sqlite_sequence[table] <
                  MaxRows + (IF table = "produtos" THEN MaxProducts ELSE MaxReceipts)
            /\ AddRowCall(table, row)

SpecAddRow == InitAddRow /\ [][NextAddRow]_vars

\* The run of the script on a request, every request of the page after it
InitRerun ==
    /\ g_mes = <<2024, 1>>
    /\ tab6 = NotRun
    /\ call = NoCall
    /\ metric = NoMetrics
    /\ NoCashFlow
    /\ query_params \in AllRequests
    /\ phase = "boot"
    /\ writer = [w \in Writers |-> Idle]
    /\ op = NoOp
    /\ StoreTables

NextRerun ==
    \/ InitDb
    \/ HandleQueryDeletions
    \/ \E q \in AllRequests : Request(q)

\* The script runs on: a step of the boot that can be taken is taken
SpecRerun ==
    /\ InitRerun
    /\ [][NextRerun]_vars
    /\ WF_vars(InitDb)
    /\ WF_vars(HandleQueryDeletions)

----------------------------------------------------------------------------
(* What the claims are stated with *)

\* What is left of a text when case, whitespace, '-', '.' and '_' are
\* disregarded (None has nothing left)
RECURSIVE Essence(_)
Essence(t) ==
    IF t = None \/ t = <<>> THEN <<>>
    ELSE IF Head(t) \in {" ", "-", ".", "_"} THEN Essence(Tail(t))
    ELSE IF Head(t) = "A" THEN <<"a">> \o Essence(Tail(t))
    ELSE IF Head(t) = "B" THEN <<"b">> \o Essence(Tail(t))
    ELSE <<Head(t)>> \o Essence(Tail(t))

Rows(df) == {df[i] : i \in 1..Len(df)}

\* The calls of _sum_profit that were made, and those that reached the
\* matcher
Calls == {c \in {tab6.lucro_periodo, tab6.lucro_total, call} : c.ran}
Matched == {c \in Calls : c.looped}

\* The products of call c that receipt row r names by its produto_id
IdHits(c, r) == {p \in Rows(c.prods) : r.produto_id # NA /\ p.id = r.produto_id}

\* The products of call c whose identifier pc is, normalised, the non-blank
\* identifier rc of receipt row r
Hits(c, r, rc, pc) ==
    {p \in Rows(c.prods) : Essence(get(r, rc)) # <<>> /\ Essence(p[pc]) = Essence(get(r, rc))}

\* The cascade after the produto_id: the first of the sku, upc, asin and name
\* steps that hits, {} when none does
FirstHits(c, r) ==
    IF Hits(c, r, "sku", "sku") # {} THEN Hits(c, r, "sku", "sku")
    ELSE IF Hits(c, r, "upc", "upc") # {} THEN Hits(c, r, "upc", "upc")
    ELSE IF Hits(c, r, "asin", "asin") # {} THEN Hits(c, r, "asin", "asin")
    ELSE Hits(c, r, "produto", "nome")

\* Gross profit per unit of product p, in 1/Den units
UnitProfit(p) ==
    Den * (p.sold_for - p.amazon_fees - p.prep - p.custo_base)
    - (IF p.quantidade > 0 THEN (Den * (p.tax + p.freight)) \div p.quantidade ELSE 0)

\* The sum of f[i] over the set S of indexes
RECURSIVE SumOver(_, _)
SumOver(f, S) ==
    IF S = {} THEN 0
    ELSE LET i == CHOOSE j \in S : TRUE IN f[i] + SumOver(f, S \ {i})

\* What receipt row i of call c adds to the total: the unit profit of the
\* product it resolved to, times the quantity sold
Contribution(c) ==
    [i \in 1..Len(c.receipts) |->
        IF c.matched[i] = <<>> THEN 0
        ELSE UnitProfit(c.matched[i][1]) * c.receipts[i].quantidade]

\* Frame df without its row i
Without(df, i) == SubSeq(df, 1, i - 1) \o SubSeq(df, i + 1, Len(df))

Permutations(n) == {f \in [1..n -> 1..n] : \A i, j \in 1..n : f[i] = f[j] => i = j}

----------------------------------------------------------------------------
(* The claims *)

\* C1: a receipt whose produto_id is the id of product P and whose normalised
\* sku is that of another product Q resolves to P: the produto_id wins.
C1_IdBeatsSku ==
    \A c \in Matched : \A i \in 1..Len(c.receipts) :
        \A P \in IdHits(c, c.receipts[i]) :
            (\E Q \in Rows(c.prods) :
                Q # P /\ Essence(Q.sku) = Essence(c.receipts[i].sku))
            => c.matched[i] = <<P>>

C1_Witness ==
    \E c \in Matched : \E i \in 1..Len(c.receipts) :
        \E P \in IdHits(c, c.receipts[i]) :
            /\ \E Q \in Hits(c, c.receipts[i], "sku", "sku") : Q # P
            /\ c.matched[i] = <<P>>

\* C2: when the produto_id step does not hit, the receipt resolves to a product
\* of the first of the steps sku, upc, asin, name that hits.
C2_CascadeOrder ==
    \A c \in Matched : \A i \in 1..Len(c.receipts) :
        LET r == c.receipts[i] IN
        (IdHits(c, r) = {} /\ FirstHits(c, r) # {})
        => (c.matched[i] # <<>> /\ c.matched[i][1] \in FirstHits(c, r))

\* no sku hit, the upc names P and the asin another product: P it is
C2_Witness ==
    \E c \in Matched : \E i \in 1..Len(c.receipts) :
        LET r == c.receipts[i] IN
        /\ IdHits(c, r) = {}
        /\ Hits(c, r, "sku", "sku") = {}
        /\ \E P \in Hits(c, r, "upc", "upc") :
              /\ \E Q \in Hits(c, r, "asin", "asin") : Q # P
              /\ c.matched[i] = <<P>>

\* C3: skus that differ only in case, whitespace, hyphens, dots and underscores
\* are equal to the matcher: a receipt with no produto_id hit resolves to a
\* product of the equivalent sku, and a receipt that has only a sku resolves
\* to no product of another sku.
C3_NormInsensitive ==
    \A c \in Matched : \A i \in 1..Len(c.receipts) :
        LET r == c.receipts[i] IN
        IdHits(c, r) = {} =>
            /\ \A P \in Rows(c.prods) :
                  (Essence(r.sku) # <<>> /\ Essence(P.sku) = Essence(r.sku))
                  => (c.matched[i] # <<>>
                      /\ Essence(c.matched[i][1].sku) = Essence(r.sku))
            /\ (get(r, "upc") = None /\ get(r, "asin") = None /\ r.produto = None
                /\ c.matched[i] # <<>>)
               => Essence(c.matched[i][1].sku) = Essence(r.sku)

\* the two skus are not the same text
C3_Witness ==
    \E c \in Matched : \E i \in 1..Len(c.receipts) :
        LET r == c.receipts[i] IN
        /\ IdHits(c, r) = {}
        /\ c.matched[i] # <<>>
        /\ c.matched[i][1].sku # r.sku
        /\ Len(c.matched[i][1].sku) # Len(r.sku)
        /\ Essence(c.matched[i][1].sku) = Essence(r.sku)
        /\ \E k \in 1..Len(r.sku) : r.sku[k] \in {"A", "B"}

\* C4: a blank identifier never matches: the product a receipt resolves to is
\* the one of its produto_id, or one that shares a non-blank normalised
\* identifier with it.
C4_BlankNeverMatches ==
    \A c \in Matched : \A i \in 1..Len(c.receipts) :
        LET r == c.receipts[i] IN
        c.matched[i] # <<>> =>
            LET P == c.matched[i][1] IN
            \/ P \in IdHits(c, r)
            \/ P \in Hits(c, r, "sku", "sku")
            \/ P \in Hits(c, r, "upc", "upc")
            \/ P \in Hits(c, r, "asin", "asin")
            \/ P \in Hits(c, r, "produto", "nome")

\* the receipt and a product carry the same sku of separators only
C4_Witness ==
    \E c \in Matched : \E i \in 1..Len(c.receipts) :
        LET r == c.receipts[i] IN
        /\ r.sku \notin {None, <<>>}
        /\ Essence(r.sku) = <<>>
        /\ \E P \in Rows(c.prods) : P.sku = r.sku
        /\ c.matched[i] = <<>>

\* C5: a receipt that no step of the cascade resolves resolves to None, and the
\* total of the call is the total of the call without that receipt.
C5_UnresolvedSkipped ==
    \A c \in Matched : \A i \in 1..Len(c.receipts) :
        LET r == c.receipts[i] IN
        (IdHits(c, r) = {} /\ FirstHits(c, r) = {})
        => LET without == _sum_profit(Without(c.receipts, i), c.prods)
           IN  /\ c.matched[i] = <<>>
               /\ ~without.raised
               /\ c.total = without.total

\* an unresolved receipt beside one that adds to the total
C5_Witness ==
    \E c \in Matched : \E i, j \in 1..Len(c.receipts) :
        /\ IdHits(c, c.receipts[i]) = {} /\ FirstHits(c, c.receipts[i]) = {}
        /\ c.matched[i] = <<>>
        /\ c.matched[j] # <<>>
        /\ c.total # 0

\* C6: a receipt whose produto_id is not null and is the id of no product is
\* not unmatched for that: it resolves to a product of the first of the steps
\* sku, upc, asin, name that hits, and to None only when none of them hits.
C6_StaleLinkFallsThrough ==
    \A c \in Matched : \A i \in 1..Len(c.receipts) :
        LET r == c.receipts[i] IN
        (r.produto_id # NA /\ IdHits(c, r) = {})
        => IF FirstHits(c, r) = {} THEN c.matched[i] = <<>>
           ELSE c.matched[i] # <<>> /\ c.matched[i][1] \in FirstHits(c, r)

\* the produto_id is the id of a product that is gone, and the sku hits
C6_Witness ==
    \E c \in Matched : \E j \in 1..Len(c.receipts) :
        /\ c.receipts[j].produto_id > 0 /\ IdHits(c, c.receipts[j]) = {}
        /\ c.matched[j] # <<>>

\* C7: the realized profit a call returns is the sum, over the receipts it
\* resolves, of the unit profit of the product times the quantity sold, for
\* every receipts frame and products frame.
C7_TotalIsSum ==
    \A c \in Calls :
        /\ ~c.raised
        /\ c.total = SumOver(Contribution(c), 1..Len(c.receipts))

\* The same of the calls that return
TotalIsSumWhenReturned ==
    \A c \in Calls :
        ~c.raised => c.total = SumOver(Contribution(c), 1..Len(c.receipts))

\* C8: where the period card is shown, a receipt of the selected
\* month whose produto_id is the id of an existing product resolved to that
\* product in the period profit, whatever the month of the product.
C8_PeriodUsesAllProducts ==
    tab6.view = "cards" =>
        \A r \in amazon_receitas : \A P \in produtos :
            (StartsWith(r.data, g_mes) /\ r.produto_id = P.id)
            => \E i \in 1..Len(tab6.lucro_periodo.receipts) :
                  /\ tab6.lucro_periodo.receipts[i] = r
                  /\ tab6.lucro_periodo.matched[i] = <<P>>

\* What the tab does instead: the period profit is taken over the receipts of
\* the selected month and the products of the selected month only, so a
\* receipt resolves in it to products of the selected month only; the total
\* profit is taken over all the receipts and all the products.
PeriodUsesMonthProducts ==
    /\ tab6.lucro_periodo.ran =>
          /\ Rows(tab6.lucro_periodo.prods) =
                {p \in produtos : StartsWith(p.data_add, g_mes)}
          /\ Rows(tab6.lucro_periodo.receipts) =
                {r \in amazon_receitas : StartsWith(r.data, g_mes)}
          /\ \A i \in 1..Len(tab6.lucro_periodo.receipts) :
                tab6.lucro_periodo.matched[i] # <<>>
                => StartsWith(tab6.lucro_periodo.matched[i][1].data_add, g_mes)
    /\ tab6.lucro_total.ran =>
          /\ Rows(tab6.lucro_total.prods) = produtos
          /\ Rows(tab6.lucro_total.receipts) = amazon_receitas

\* the period card is shown, and a receipt of the month whose produto_id is
\* the id of a product of another month adds nothing to the period profit,
\* while it adds to the total profit
PeriodDropsOtherMonthProduct ==
    /\ tab6.view = "cards"
    /\ \E i \in 1..Len(tab6.lucro_periodo.receipts) :
          \E j \in 1..Len(tab6.lucro_total.receipts) :
            LET r == tab6.lucro_periodo.receipts[i] IN
            /\ tab6.lucro_total.receipts[j] = r
            /\ \E P \in produtos : P.id = r.produto_id /\ ~StartsWith(P.data_add, g_mes)
            /\ tab6.lucro_periodo.matched[i] = <<>>
            /\ tab6.lucro_total.matched[j] # <<>>
            /\ UnitProfit(tab6.lucro_total.matched[j][1]) # 0

\* C9: a call on a receipts frame that is not empty returns a total: it never
\* raises, two products of the same sku, upc, asin or name included.
C9_NeverRaises ==
    \A c \in Calls : c.receipts # <<>> => ~c.raised

\* C10: the realized profit of a call is that of every other order of its
\* receipts (a call that raises raises in every order).
C10_PermutationInvariant ==
    \A c \in Calls : \A f \in Permutations(Len(c.receipts)) :
        LET other == _sum_profit([i \in 1..Len(c.receipts) |-> c.receipts[f[i]]],
                                 c.prods)
        IN  other.raised = c.raised /\ other.total = c.total

\* two receipts that add two different amounts to the total
C10_Witness ==
    \E c \in Matched :
        /\ Len(c.receipts) >= 2
        /\ c.matched[1] # <<>> /\ c.matched[2] # <<>>
        /\ Contribution(c)[1] # Contribution(c)[2]
        /\ Contribution(c)[1] # 0 /\ Contribution(c)[2] # 0
        /\ c.total = Contribution(c)[1] + Contribution(c)[2]

\* C11: a call of _sum_profit on an empty receipts frame, or on an empty
\* products frame, returns 0 and does not raise, whatever the other frame is.
C11_EmptyFrameIsZero ==
    \A c \in Calls :
        (c.receipts = <<>> \/ c.prods = <<>>) => (~c.raised /\ c.total = 0)

\* no receipt, and two products of the same blank upc (which make the maps
\* raise): the call returns 0 all the same
C11_Witness ==
    /\ call.ran /\ call.receipts = <<>> /\ ~call.raised /\ call.total = 0
    /\ Len(call.prods) >= 2
    /\ ~IndexIsUnique(call.prods, "upc")

\* C12: for a lot of more than 0 units the effective unit cost is the base
\* cost plus (tax + freight) / lot, and the gross profit per unit is sale price
\* - marketplace fee - prep fee - effective unit cost, negative when it is.
C12_CostFormulas ==
    (metric.ran /\ ~metric.raised) =>
        LET r   == metric.row
            qty == Or0(get0(r, "quantidade"))
        IN  /\ qty > 0 =>
                  metric.p2b * qty =
                     Float(get0(r, "custo_base")) * qty
                     + Float(get0(r, "tax")) + Float(get0(r, "freight"))
            /\ metric.gross_profit =
                  Float(get0(r, "sold_for")) - Float(get0(r, "amazon_fees"))
                  - Float(get0(r, "prep")) - metric.p2b

\* base 10, tax 5, freight 5, lot 10, prep 2, price 30, fee 3: cost 11 and
\* profit 14
C12_Witness ==
    /\ metric.ran
    /\ metric.row = [custo_base |-> 10, tax |-> 5, freight |-> 5,
                     quantidade |-> 10, prep |-> 2, sold_for |-> 30,
                     amazon_fees |-> 3]
    /\ metric.p2b = 11 * Den
    /\ metric.gross_profit = 14 * Den

\* a profit below zero is not clamped
NegativeProfit ==
    metric.ran /\ ~metric.raised /\ metric.gross_profit < 0

\* C13: for a lot of 0 units the effective unit cost is the base cost,
\* whatever the tax and the freight of the lot are.
C13_EmptyLotCostIsBase ==
    (metric.ran /\ ~metric.raised /\ Or0(get0(metric.row, "quantidade")) = 0)
    => metric.p2b = Float(get0(metric.row, "custo_base"))

\* a lot of 0 units with tax and freight
C13_Witness ==
    /\ metric.ran /\ ~metric.raised
    /\ metric.row.quantidade = 0
    /\ metric.row.tax > 0 /\ metric.row.freight > 0
    /\ metric.row.custo_base > 0
    /\ metric.p2b = Float(metric.row.custo_base)

\* C14: an effective unit cost of 0 gives a gross ROI of 0 and a sale price
\* of 0 gives a margin of 0; no quotient has a divisor of 0.
C14_ZeroDivisorGivesZero ==
    (metric.ran /\ ~metric.raised) =>
        /\ metric.p2b = 0 => metric.roi = Zero
        /\ Or0(get0(metric.row, "sold_for")) = 0 => metric.margin = Zero
        /\ metric.roi[2] # 0
        /\ metric.margin[2] # 0

\* a cost of 0 with a profit, and a price of 0 with a loss
C14_Witness ==
    /\ metric.ran /\ ~metric.raised
    /\ \/ metric.p2b = 0 /\ metric.gross_profit > 0 /\ metric.roi = Zero
       \/ /\ metric.row.sold_for = 0 /\ metric.gross_profit < 0
          /\ metric.margin = Zero

\* Row r with 0 for every number column that is None, not a number or not there
Coerced(r) ==
    [c \in GpCols |-> IF get0(r, c) \in {NoneNum, EmptyStr, BadText} THEN 0
                      ELSE get0(r, c)]

\* C15: the metrics of a row of which a number column is missing, None or
\* not a number are those of the row with 0 in that column; none raises.
C15_MalformedIsZero ==
    metric.ran =>
        /\ ~metric.raised
        /\ metric.p2b = price_to_buy_eff(Coerced(metric.row))
        /\ metric.gross_profit = gross_profit_unit(Coerced(metric.row))
        /\ metric.roi = gross_roi(Coerced(metric.row))
        /\ metric.margin = margin_pct(Coerced(metric.row))

\* The same of a row that has no text that float() does not parse
MalformedIsZeroButText ==
    (metric.ran /\ ~FloatRaises(metric.row, GpCols)) =>
        /\ ~metric.raised
        /\ metric.p2b = price_to_buy_eff(Coerced(metric.row))
        /\ metric.gross_profit = gross_profit_unit(Coerced(metric.row))
        /\ metric.roi = gross_roi(Coerced(metric.row))
        /\ metric.margin = margin_pct(Coerced(metric.row))

\* a column that is None or not there counts as 0, and the result is not 0
MissingCountsAsZero ==
    /\ metric.ran /\ ~metric.raised
    /\ \E c \in GpCols : c \notin DOMAIN metric.row \/ metric.row[c] = NoneNum
    /\ metric.gross_profit # 0

\* The rows of table T of month m, and the sum of their column col
InMonth(T, m) == {r \in T : Mes(r.data) = m}

RECURSIVE Total(_, _)
Total(T, col) ==
    IF T = {} THEN 0
    ELSE LET r == CHOOSE x \in T : TRUE IN r[col] + Total(T \ {r}, col)

\* The months of the rows of the three streams of the cash flow
MonthsOf(g, i, ar) == {Mes(r.data) : r \in g \cup i \cup ar}

\* C16: in every row of the monthly tables, Resultado is the receipts of the
\* month minus its expenses and its investments, in USD from the USD amounts
\* and in BRL from the BRL amounts (Amazon receipts have no BRL amount).
C16_ResultPerCurrency ==
    /\ tab3.view = "table" =>
          /\ \A m \in DOMAIN tab3.p_usd :
                tab3.p_usd[m]["Resultado"] =
                    Total(InMonth(amazon_receitas, m), "valor_usd")
                    - (Total(InMonth(gastos, m), "valor_usd")
                       + Total(InMonth(investimentos, m), "valor_usd"))
          /\ \A m \in DOMAIN tab3.p_brl :
                tab3.p_brl[m]["Resultado"] =
                    0 - (Total(InMonth(gastos, m), "valor_brl")
                         + Total(InMonth(investimentos, m), "valor_brl"))
    /\ tab4.view = "charts" =>
          \A m \in DOMAIN tab4.pivot :
                tab4.pivot[m]["Resultado"] =
                    Total(InMonth(amazon_receitas, m), "valor_usd")
                    - (Total(InMonth(gastos, m), "valor_usd")
                       + Total(InMonth(investimentos, m), "valor_usd"))

\* a month with receipts, expenses and investments in both tabs
C16_Witness ==
    /\ tab3.view = "table" /\ tab4.view = "charts"
    /\ \E m \in DOMAIN tab3.p_usd :
          /\ tab3.p_usd[m][RECEITAS] > 0 /\ tab3.p_usd[m][GASTOS] > 0
          /\ tab3.p_usd[m][INVEST] > 0
          /\ tab3.p_usd[m]["Resultado"] # 0
          /\ tab3.p_brl[m]["Resultado"] < 0
          /\ tab3.p_brl[m]["Resultado"] # tab3.p_usd[m]["Resultado"]
          /\ tab4.pivot[m]["Resultado"] = tab3.p_usd[m]["Resultado"]

\* C17: every month of a row of the three streams the table is made of (the
\* rows of the selected month for the monthly tables, all the rows for the
\* tables of the totals) is a row of the table, and a tipo with no row in the
\* month is 0 there; a month with expenses only is not dropped.
C17_OuterJoin ==
    LET g  == InMonth(gastos, g_mes)
        i  == InMonth(investimentos, g_mes)
        ar == InMonth(amazon_receitas, g_mes)
    IN
    /\ tab3.view # "none" =>
          /\ MonthsOf(g, i, ar) # {} => tab3.view = "table"
          /\ DOMAIN tab3.p_usd = MonthsOf(g, i, ar)
          /\ DOMAIN tab3.p_brl = MonthsOf(g, i, ar)
          /\ \A p \in {tab3.p_usd, tab3.p_brl} : \A m \in DOMAIN p :
                /\ InMonth(g, m) = {} => p[m][GASTOS] = 0
                /\ InMonth(i, m) = {} => p[m][INVEST] = 0
                /\ InMonth(ar, m) = {} => p[m][RECEITAS] = 0
    /\ tab3.view = "table" =>
          /\ DOMAIN tab3.p_usd_all = MonthsOf(gastos, investimentos, amazon_receitas)
          /\ DOMAIN tab3.p_brl_all = MonthsOf(gastos, investimentos, amazon_receitas)
          /\ \A p \in {tab3.p_usd_all, tab3.p_brl_all} : \A m \in DOMAIN p :
                /\ InMonth(gastos, m) = {} => p[m][GASTOS] = 0
                /\ InMonth(investimentos, m) = {} => p[m][INVEST] = 0
                /\ InMonth(amazon_receitas, m) = {} => p[m][RECEITAS] = 0
    /\ tab4.view # "none" =>
          /\ MonthsOf(g, i, ar) # {} => tab4.view = "charts"
          /\ DOMAIN tab4.pivot = MonthsOf(g, i, ar)

\* the selected month has expenses only, and another month has receipts
C17_Witness ==
    /\ tab3.view = "table"
    /\ InMonth(gastos, g_mes) # {}
    /\ InMonth(investimentos, g_mes) = {}
    /\ InMonth(amazon_receitas, g_mes) = {}
    /\ tab3.p_usd[g_mes][GASTOS] > 0
    /\ tab3.p_usd[g_mes][RECEITAS] = 0 /\ tab3.p_usd[g_mes][INVEST] = 0
    /\ tab3.p_brl[g_mes][RECEITAS] = 0 /\ tab3.p_brl[g_mes][INVEST] = 0
    /\ \E m \in DOMAIN tab3.p_usd_all :
          m # g_mes /\ tab3.p_usd_all[m][RECEITAS] > 0
          /\ tab3.p_usd_all[m][GASTOS] = 0

\* C18: a cell of a monthly table is the sum of the amounts of its currency
\* over the rows of its stream of its month.
C18_MonthlySums ==
    tab3.view = "table" =>
        /\ \A m \in DOMAIN tab3.p_usd :
              /\ tab3.p_usd[m][GASTOS] = Total(InMonth(gastos, m), "valor_usd")
              /\ tab3.p_usd[m][INVEST] = Total(InMonth(investimentos, m), "valor_usd")
              /\ tab3.p_usd[m][RECEITAS] = Total(InMonth(amazon_receitas, m), "valor_usd")
        /\ \A m \in DOMAIN tab3.p_brl :
              /\ tab3.p_brl[m][GASTOS] = Total(InMonth(gastos, m), "valor_brl")
              /\ tab3.p_brl[m][INVEST] = Total(InMonth(investimentos, m), "valor_brl")
              /\ tab3.p_brl[m][RECEITAS] = 0
        /\ \A m \in DOMAIN tab3.p_usd_all :
              /\ tab3.p_usd_all[m][GASTOS] = Total(InMonth(gastos, m), "valor_usd")
              /\ tab3.p_usd_all[m][INVEST] = Total(InMonth(investimentos, m), "valor_usd")
              /\ tab3.p_usd_all[m][RECEITAS] = Total(InMonth(amazon_receitas, m), "valor_usd")

\* expenses 100 on 2024-01-15 and 50 on 2024-01-20, a receipt of 500 on
\* 2024-01-10: January has Expenses 150, Receipts 500, Result 350
C18_Witness ==
    /\ tab3.view = "table"
    /\ g_mes = <<2024, 1>>
    /\ {<<r.data, r.valor_usd>> : r \in gastos} = {<<Jan15, 100>>, <<Jan20, 50>>}
    /\ {<<r.data, r.valor_usd>> : r \in InMonth(amazon_receitas, g_mes)}
          = {<<Jan10, 500>>}
    /\ tab3.p_usd[g_mes][GASTOS] = 150
    /\ tab3.p_usd[g_mes][RECEITAS] = 500
    /\ tab3.p_usd[g_mes]["Resultado"] = 350

\* The totals of all the months are the sums over all the rows of the ledgers
TotalsOfLedgers ==
    /\ tab3.tot_receita_usd = Total(amazon_receitas, "valor_usd")
    /\ tab3.tot_desp_usd =
          Total(gastos, "valor_usd") + Total(investimentos, "valor_usd")
    /\ tab3.tot_receita_brl = 0
    /\ tab3.tot_desp_brl =
          Total(gastos, "valor_brl") + Total(investimentos, "valor_brl")

\* C19: when the ledgers have a row, the "Fluxo de Caixa" tab shows the totals
\* of all the months, which are the sums over all the rows of the ledgers,
\* whatever month is selected, a month with no row included.
C19_TotalsWhateverMonth ==
    (tab3.view # "none" /\ gastos \cup investimentos \cup amazon_receitas # {})
    => (tab3.view = "table" /\ TotalsOfLedgers)

\* What holds instead: the totals, where they are shown, are the sums over all
\* the rows of the ledgers, and they are shown when the selected month has a
\* row
TotalsWhereShown ==
    /\ tab3.view = "table" => TotalsOfLedgers
    /\ tab3.view = "info" =>
          InMonth(gastos \cup investimentos \cup amazon_receitas, g_mes) = {}

\* totals of rows of two months
TotalsOfTwoMonths ==
    /\ tab3.view = "table"
    /\ \E m \in DOMAIN tab3.p_usd_all : m # g_mes /\ tab3.p_usd_all[m][GASTOS] > 0
    /\ tab3.tot_desp_usd > tab3.p_usd[g_mes][GASTOS] + tab3.p_usd[g_mes][INVEST]

\* Table T with other amounts in its column col: none, or more
Variants == {"none", "more"}

Reprice(T, col, v) ==
    {[r EXCEPT ![col] = IF v = "none" THEN 0 ELSE r[col] + r.id] : r \in T}

\* What the three tabs show in USD, and in BRL
UsdOf(t1, t3, t4) ==
    <<t1.ran, t1.rec_usd_mes, t1.desp_usd_mes, t3.view, t3.p_usd, t3.p_usd_all,
      t3.tot_receita_usd, t3.tot_desp_usd, t4>>

BrlOf(t1, t3) ==
    <<t1.ran, t1.rec_brl_mes, t1.desp_brl_mes, t3.view, t3.p_brl, t3.p_brl_all,
      t3.tot_receita_brl, t3.tot_desp_brl>>

\* The three tabs on given ledgers
CashFlowOf(g, i, ar, rc) ==
    [t1 |-> Tab1Kpis(g, i, ar, rc, g_mes), t3 |-> Tab3CashFlow(g, i, ar, g_mes),
     t4 |-> Tab4Pivot(g, i, ar, g_mes)]

\* C20: with other BRL amounts in the ledgers every USD output of the three
\* tabs is the same, and with other USD amounts every BRL output is.
C20_CurrencyIndependence ==
    (tab1.ran /\ tab3.view # "none" /\ tab4.view # "none") =>
        \A v \in Variants :
            LET b == CashFlowOf(Reprice(gastos, "valor_brl", v),
                                Reprice(investimentos, "valor_brl", v),
                                amazon_receitas,
                                Reprice(receitas, "valor_brl", v))
                u == CashFlowOf(Reprice(gastos, "valor_usd", v),
                                Reprice(investimentos, "valor_usd", v),
                                Reprice(amazon_receitas, "valor_usd", v),
                                Reprice(receitas, "valor_usd", v))
            IN  /\ UsdOf(b.t1, b.t3, b.t4) = UsdOf(tab1, tab3, tab4)
                /\ BrlOf(u.t1, u.t3) = BrlOf(tab1, tab3)

\* the month has amounts of both currencies, and other BRL amounts change the
\* BRL outputs
C20_Witness ==
    /\ tab1.ran /\ tab3.view = "table" /\ tab4.view = "charts"
    /\ tab3.p_usd[g_mes][GASTOS] > 0 /\ tab3.p_brl[g_mes][GASTOS] > 0
    /\ tab1.rec_usd_mes > 0 /\ tab1.rec_brl_mes > 0
    /\ LET b == CashFlowOf(Reprice(gastos, "valor_brl", "more"),
                           Reprice(investimentos, "valor_brl", "more"),
                           amazon_receitas,
                           Reprice(receitas, "valor_brl", "more"))
       IN  /\ BrlOf(b.t1, b.t3) # BrlOf(tab1, tab3)
           /\ UsdOf(b.t1, b.t3, b.t4) = UsdOf(tab1, tab3, tab4)

\* The row of table T of id i, where there is one
RowOf(T, i) == CHOOSE r \in T : r.id = i

Ids(T) == {r.id : r \in T}

\* The steps of the run of the script: the boot, the deletions
BootStep      == phase = "boot" /\ phase' = "deletions"
DeletionsStep == phase = "deletions" /\ phase' # "deletions"

\* C21: the stock update of the write path of a receipt of quantity q of
\* product P takes the stock of P from s to max(0, s - q) and leaves the other
\* fields of P and every other product; the insertion of the receipt changes
\* no product, and is followed by the stock update whenever the stored receipt
\* references a product and q > 0; a write path with no product makes no
\* stock update.
C21_StockDecrement ==
    [][\A w \in Writers :
          /\ (writer[w].pc = "update" /\ writer'[w].pc = "done") =>
                produtos' =
                    {IF p.id = writer[w].pid
                     THEN [p EXCEPT !.estoque = IF @ > writer[w].qty
                                                THEN @ - writer[w].qty ELSE 0]
                     ELSE p : p \in produtos}
          /\ (writer[w].pc = "insert" /\ writer'[w].pc # "insert") =>
                /\ produtos' = produtos
                /\ \A r \in amazon_receitas' \ amazon_receitas :
                      (r.produto_id # NA /\ r.quantidade > 0) =>
                          /\ writer'[w].pc = "update"
                          /\ writer'[w].pid = r.produto_id
                          /\ writer'[w].qty = r.quantidade
          /\ writer'[w].pc = "update" => writer'[w].pid # NA
          /\ (\A v \in Writers : writer'[v].pc \in {writer[v].pc, "insert"}) =>
                \A p \in produtos', o \in produtos : o.id = p.id => o = p
      ]_vars

\* the stock of a product went from s to s - q > 0 beside another product
C21_Witness ==
    /\ op.name = "update_estoque"
    /\ \E p \in produtos :
          /\ p.id = op.arg.pid
          /\ op.arg.qty > 0
          /\ p.estoque = writer[op.arg.w].seen - op.arg.qty
          /\ p.estoque > 0
          /\ \E other \in produtos : other.id # p.id /\ other.estoque > 0

\* C22: the stock of every product is at least 0.
C22_StockNeverNegative ==
    \A p \in produtos : p.estoque >= 0

\* a receipt of more units than the stock the product had
C22_Witness ==
    /\ op.name = "update_estoque"
    /\ \E p \in produtos :
          /\ p.id = op.arg.pid
          /\ op.arg.qty > writer[op.arg.w].seen
          /\ writer[op.arg.w].seen > 0
          /\ p.estoque = 0

\* C23: when the write paths of two sessions for the same product, of
\* quantities q1 and q2, both started from stock s and have both ended, the
\* stock is max(0, s - q1 - q2), however their statements interleaved.
C23_NoLostUpdate ==
    \A v, w \in Writers :
        (/\ v # w
         /\ writer[v].pc = "done" /\ writer[w].pc = "done"
         /\ writer[v].pid = writer[w].pid
         /\ writer[v].seen = writer[w].seen) =>
            \A p \in produtos :
                p.id = writer[v].pid =>
                    p.estoque =
                        IF writer[v].seen > writer[v].qty + writer[w].qty
                        THEN writer[v].seen - writer[v].qty - writer[w].qty
                        ELSE 0

\* two write paths from the same stock, both decrements in the stock
C23_Witness ==
    /\ writer[1].pc = "done" /\ writer[2].pc = "done"
    /\ writer[1].pid = writer[2].pid
    /\ writer[1].seen = writer[2].seen
    /\ writer[1].qty > 0 /\ writer[2].qty > 0
    /\ writer[1].seen >= writer[1].qty + writer[2].qty
    /\ \E p \in produtos :
          /\ p.id = writer[1].pid
          /\ p.estoque = writer[1].seen - writer[1].qty - writer[2].qty

\* C24: every stored receipt has a quantity of at least 1.
C24_QuantityAtLeastOne ==
    \A r \in amazon_receitas : r.quantidade >= 1

\* What holds instead: the receipts of form_amz_receitas have a quantity of at
\* least 1, those of sync_orders_to_db one of at least 0
FormQuantityAtLeastOne ==
    \A r \in amazon_receitas :
        IF r.quem = <<"SP-API">> THEN r.quantidade >= 0 ELSE r.quantidade >= 1

SyncedReceiptOfNothing ==
    \E r \in amazon_receitas : r.quem = <<"SP-API">> /\ r.quantidade = 0

\* C25: the produto_id of every stored receipt is NULL or the id of a row of
\* produtos; the deletion of a product keeps its receipts, their sku included,
\* with produto_id NULL.
C25_ReferentialIntegrity ==
    /\ [](\A r \in amazon_receitas :
             r.produto_id = NA \/ r.produto_id \in Ids(produtos))
    /\ [][(DeletionsStep /\ "del_ar" \notin DOMAIN query_params) =>
             /\ Ids(amazon_receitas') = Ids(amazon_receitas)
             /\ \A r \in amazon_receitas :
                   RowOf(amazon_receitas', r.id) =
                       IF r.produto_id \in Ids(produtos) \ Ids(produtos')
                       THEN [r EXCEPT !.produto_id = NA] ELSE r
          ]_vars

\* the product of a receipt was deleted: the receipt is there, with its sku
C25_Witness ==
    /\ op.name = "handle_query_deletions"
    /\ "del_prod" \in DOMAIN op.arg.q
    /\ \E w \in Writers :
          /\ writer[w].pc = "done"
          /\ writer[w].pid = op.arg.q["del_prod"]
          /\ writer[w].pid \notin Ids(produtos)
          /\ \E r \in amazon_receitas :
                /\ r.quem = writer[w].quem
                /\ r.produto_id = NA
                /\ r.sku = <<"A">>

\* the insert of a receipt whose product is gone by then
StaleProductOfForm ==
    /\ op.name = "add_row"
    /\ op.arg.table = "amazon_receitas"
    /\ op.arg.row.produto_id # NA
    /\ op.arg.row.produto_id \notin Ids(produtos)
    /\ \E r \in amazon_receitas :
          /\ r.id = sqlite_sequence["amazon_receitas"]
          /\ r.produto_id = NA

\* The produto_id of the row is given and is the id of no product
Dangling(row) ==
    /\ "produto_id" \in DOMAIN row
    /\ row.produto_id # NA
    /\ row.produto_id \notin Ids(produtos)

\* C26: add_row of a receipt whose produto_id is the id of no product stores
\* the receipt with produto_id NULL and its other fields, one row, and does
\* not raise; add_row of a product without its nome, or of a receipt without
\* its data and without the field produto_id, raises and adds no row.
C26_InsertFallback ==
    [][op'.name = "add_row" =>
          LET table == op'.arg.table
              row   == op'.arg.row
          IN  /\ (table = "amazon_receitas" /\ row.data # None /\ Dangling(row)) =>
                    /\ ~op'.arg.raised
                    /\ produtos' = produtos
                    /\ LET id == sqlite_sequence'["amazon_receitas"]
                       IN /\ id \notin Ids(amazon_receitas)
                          /\ amazon_receitas' = amazon_receitas \cup
                                {[id |-> id, data |-> row.data, produto_id |-> NA,
                                  quantidade |-> row.quantidade,
                                  valor_usd |-> row.valor_usd,
                                  quem |-> row.quem, sku |-> row.sku]}
              /\ (\/ table = "produtos" /\ row.nome = None
                  \/ /\ table = "amazon_receitas"
                     /\ "produto_id" \notin DOMAIN row
                     /\ row.data = None) =>
                    /\ op'.arg.raised
                    /\ produtos' = produtos
                    /\ amazon_receitas' = amazon_receitas
                    /\ sqlite_sequence' = sqlite_sequence
      ]_vars

\* a receipt of a product that does not exist was stored with NULL
C26_Witness ==
    /\ op.name = "add_row"
    /\ op.arg.table = "amazon_receitas"
    /\ ~op.arg.raised
    /\ "produto_id" \in DOMAIN op.arg.row
    /\ op.arg.row.produto_id > 0
    /\ op.arg.row.produto_id \notin Ids(produtos)
    /\ produtos # {}
    /\ \E r \in amazon_receitas :
          /\ r.id = sqlite_sequence["amazon_receitas"]
          /\ r.quem = <<"D">>
          /\ r.produto_id = NA

\* add_row raised: on a product, and on a receipt without the field
AddRowRaisedOnProduct ==
    op.name = "add_row" /\ op.arg.raised /\ op.arg.table = "produtos"

AddRowRaisedOnReceipt ==
    /\ op.name = "add_row" /\ op.arg.raised
    /\ op.arg.table = "amazon_receitas"
    /\ "produto_id" \notin DOMAIN op.arg.row

\* C27: the deletions of a request change the stock of no product: every
\* product left is as it was, all of them are left when the request deletes
\* no product, and no receipt other than the deleted one goes.
C27_DeleteKeepsStock ==
    [][DeletionsStep =>
          /\ \A p \in produtos' : p \in produtos
          /\ "del_prod" \notin DOMAIN query_params => produtos' = produtos
          /\ ledgers' = ledgers
          /\ Ids(amazon_receitas) \ Ids(amazon_receitas') \subseteq
                {query_params[x] : x \in DOMAIN query_params \cap {"del_ar"}}
      ]_vars

\* a receipt of q units was created, then deleted: the stock is s - q
C27_Witness ==
    /\ op.name = "handle_query_deletions"
    /\ "del_ar" \in DOMAIN op.arg.q
    /\ writer[1].pc = "done" /\ writer[2].pc = "idle"
    /\ sqlite_sequence["amazon_receitas"] = 1
    /\ amazon_receitas = {}
    /\ \E p \in produtos :
          /\ p.id = writer[1].pid
          /\ writer[1].seen >= writer[1].qty
          /\ p.estoque = writer[1].seen - writer[1].qty
          /\ p.estoque < writer[1].seen

\* C28: the backfill of the boot changes no product and no receipt but the
\* produto_id of the receipts whose produto_id is NULL or 0 and whose sku is
\* not empty, which becomes the id of a product of exactly that sku, or NULL
\* when there is none.
C28_BackfillFrame ==
    [][BootStep =>
          /\ produtos' = produtos
          /\ Ids(amazon_receitas') = Ids(amazon_receitas)
          /\ \A r \in amazon_receitas :
                LET after == RowOf(amazon_receitas', r.id)
                    same  == {p.id : p \in {x \in produtos :
                                 x.sku = r.sku /\ x.sku # <<>> /\ x.sku # None}}
                IN  IF r.produto_id \in {NA, 0} /\ r.sku # <<>> /\ r.sku # None
                    THEN /\ after = [r EXCEPT !.produto_id = after.produto_id]
                         /\ after.produto_id \in IF same = {} THEN {NA} ELSE same
                    ELSE after = r
      ]_vars

\* the receipt of a deleted product was linked to another product of its sku,
\* beside a receipt with an empty sku that was left
C28_Witness ==
    /\ op.name = "init_db"
    /\ writer[1].pc = "done"
    /\ writer[1].pid \notin Ids(produtos)
    /\ \E r \in amazon_receitas :
          /\ r.quem = <<"B">>
          /\ r.produto_id \in Ids(produtos)
          /\ RowOf(produtos, r.produto_id).sku = r.sku
    /\ \E r \in amazon_receitas : r.produto_id = NA /\ r.sku = <<>>

\* a receipt is not linked to a product whose sku differs in case only
BackfillIsExact ==
    /\ op.name = "init_db"
    /\ \E r \in amazon_receitas :
          /\ r.produto_id = NA
          /\ r.sku = <<"A">>
          /\ \E p \in produtos : p.sku = <<"a">>

\* The receipts frame with other amounts received: none, or more
RepriceFrame(df, v) ==
    [i \in 1..Len(df) |->
        [df[i] EXCEPT !.valor_usd = IF v = "none" THEN 0 ELSE @ + df[i].id]]

\* C29: the realized profit of a call is that of the call on the receipts
\* with any other amounts received (valor_usd), the rest of the receipts and
\* the products being the same.
C29_ProfitIgnoresAmountReceived ==
    \A c \in Calls : \A v \in Variants :
        LET other == _sum_profit(RepriceFrame(c.receipts, v), c.prods)
        IN  /\ other.raised = c.raised
            /\ other.total = c.total
            /\ other.matched = c.matched

\* a call with a profit, of receipts with an amount received
C29_Witness ==
    \E c \in Matched :
        /\ c.total # 0
        /\ \E i \in 1..Len(c.receipts) :
              c.matched[i] # <<>> /\ c.receipts[i].valor_usd > 0
        /\ RepriceFrame(c.receipts, "none") # c.receipts
        /\ _sum_profit(RepriceFrame(c.receipts, "none"), c.prods).total = c.total

\* The request has a deletion parameter
DeletionRequested == DOMAIN query_params \cap DeletionParams # {}

\* C30: the deletions of a request take from each table at most the row of
\* the id asked for (none for an id that is not an integer), then the query
\* parameters are cleared and the script reruns; the rerun finds no deletion
\* parameter, deletes nothing and goes on to the tabs.
C30_DeletionsOnceThenTabs ==
    /\ [][DeletionsStep =>
             /\ Ids(produtos) \ Ids(produtos') \subseteq
                   {query_params[x] : x \in DOMAIN query_params \cap {"del_prod"}}
             /\ Ids(amazon_receitas) \ Ids(amazon_receitas') \subseteq
                   {query_params[x] : x \in DOMAIN query_params \cap {"del_ar"}}
             /\ Ids(produtos') \subseteq Ids(produtos)
             /\ Ids(amazon_receitas') \subseteq Ids(amazon_receitas)
             /\ IF DeletionRequested
                THEN query_params' = <<>> /\ phase' = "boot"
                ELSE /\ phase' = "tabs"
                     /\ query_params' = query_params
                     /\ produtos' = produtos
                     /\ amazon_receitas' = amazon_receitas
          ]_vars
    /\ (phase = "deletions" /\ DeletionRequested)
          ~> (phase = "tabs" /\ query_params = <<>>)

\* the receipt asked for is deleted, the other is left, the rerun is next
C30_Witness ==
    /\ op.name = "handle_query_deletions"
    /\ op.arg.changed
    /\ "del_ar" \in DOMAIN op.arg.q
    /\ op.arg.q["del_ar"] \notin Ids(amazon_receitas)
    /\ amazon_receitas # {}
    /\ query_params = <<>>
    /\ phase = "boot"

\* the rerun after the deletions reached the tabs
RerunReachedTabs ==
    /\ op.name = "handle_query_deletions"
    /\ ~op.arg.changed
    /\ op.arg.q = <<>>
    /\ phase = "tabs"

============================================================================
